---- MODULE Spec2Model ----
(***************************************************************************)
(* A model of the htmeta emission engine: the variable environment and its *)
(* `$name` expansion, the tree walker (HtmlEmitter::emit), the tag         *)
(* emitter, the plugin dispatch, and the template plugin (registration,    *)
(* instantiation, @children splicing, props, for loops).                   *)
(*                                                                         *)
(* Text is modelled as a sequence of one-character strings, so that        *)
(* expansion, prefix stripping and escaping are computed character by      *)
(* character as the code does.                                             *)
(***************************************************************************)
EXTENDS Naturals, Sequences, FiniteSets, TLC

VARIABLES
    stack,      \* the emitters of the active emit() calls, innermost last
    out,        \* everything written to the writer so far
    status,     \* "off" | "run" | "ok" | "err" | "panic": the top-level emit
    plugins,    \* the builder's plugin list, in registration order
    indent,     \* the builder's indentation width (0 = minify)
    doc,        \* the document handed to the top-level emit
    ev,         \* history: what the last step did
    xsegs,      \* expand_string check: the input text, as segments
    xvars,      \* expand_string check: the environment
    xres,       \* expand_string check: <<>> before the call, <<result>> after
    pc,         \* watch mode: "off" | "compile" | "wait", where watcher() is
    watcher,    \* watch mode: the Watcher (dirs, files, last_time)
    rx,         \* watch mode: the events sent by the notifier, not yet received
    now,        \* watch mode: the time, in milliseconds
    project,    \* watch mode: what a build finds on disk (does it pass, what it uses)
    compiled,   \* watch mode: what the last compile() returned
    pending     \* history: watched paths changed since the last build began

vars == <<stack, out, status, plugins, indent, doc, ev, xsegs, xvars, xres,
          pc, watcher, rx, now, project, compiled, pending>>

walkerVars == <<stack, out, status, plugins, indent, doc, ev>>
expandVars == <<xsegs, xvars, xres>>
watchVars == <<pc, watcher, rx, now, project, compiled, pending>>

\* ------------------------------------------------------------------ text

Lower == {"a", "b", "c", "d", "e", "f", "g", "h", "i", "j", "k", "l", "m",
          "n", "o", "p", "q", "r", "s", "t", "u", "v", "w", "x", "y", "z"}
Upper == {"A", "B", "C", "D", "E", "F", "G", "H", "I", "J", "K", "L", "M",
          "N", "O", "P", "Q", "R", "S", "T", "U", "V", "W", "X", "Y", "Z"}
Digit == {"0", "1", "2", "3", "4", "5", "6", "7", "8", "9"}

\* The regex class \w of the pattern in expand_string.
IsWord(c) == c \in Lower \cup Upper \cup Digit \cup {"_"}

RECURSIVE Concat(_)
Concat(ss) == IF ss = <<>> THEN <<>> ELSE Head(ss) \o Concat(Tail(ss))

RECURSIVE Join(_, _)
Join(ss, sep) ==
    IF ss = <<>> THEN <<>>
    ELSE IF Len(ss) = 1 THEN ss[1]
    ELSE ss[1] \o sep \o Join(Tail(ss), sep)

Contains(text, c) == \E i \in 1..Len(text) : text[i] = c

StartsWith(text, c) == Len(text) > 0 /\ text[1] = c

\* ----------------------------------------------------------- environment

\* Vars: a map from name to text; a missing name reads as absent.
EmptyVars == <<>>

VarsGet(vs, key) == IF key \in DOMAIN vs THEN vs[key] ELSE <<>>

VarsInsert(vs, key, value) ==
    [k \in (DOMAIN vs) \cup {key} |-> IF k = key THEN value ELSE vs[k]]

\* Extend with a sequence of <<key, value>> pairs, in order (later pairs win).
RECURSIVE VarsExtend(_, _)
VarsExtend(vs, pairs) ==
    IF pairs = <<>> THEN vs
    ELSE VarsExtend(VarsInsert(vs, pairs[1][1], pairs[1][2]), Tail(pairs))

\* The length of the longest run of \w characters at the start of text.
RECURSIVE WordRun(_)
WordRun(text) ==
    IF text # <<>> /\ IsWord(Head(text)) THEN 1 + WordRun(Tail(text)) ELSE 0

Drop(text, n) == SubSeq(text, n + 1, Len(text))

\* A mutant of expand_string: the inserted value is expanded again.
RECURSIVE expand_string_rec(_, _, _)
expand_string_rec(vs, text, fuel) ==
    IF text = <<>> THEN <<>>
    ELSE IF Head(text) = "$" /\ Len(text) >= 2 /\ text[2] = "$"
         THEN <<"$">> \o expand_string_rec(vs, Drop(text, 2), fuel)
    ELSE IF Head(text) = "$" /\ WordRun(Tail(text)) > 0
         THEN LET n == WordRun(Tail(text))
                  v == VarsGet(vs, SubSeq(text, 2, n + 1))
              IN  (IF fuel > 0 THEN expand_string_rec(vs, v, fuel - 1) ELSE v)
                      \o expand_string_rec(vs, Drop(text, n + 1), fuel)
    ELSE <<Head(text)>> \o expand_string_rec(vs, Tail(text), fuel)

expand_string_twice(vs, text) == expand_string_rec(vs, text, 1)

\* Vars::expand_string: replace_all of the pattern \$(\$|\w+), left to right,
\* matches not overlapping; the replacement text is not scanned again.
RECURSIVE expand_string(_, _)
expand_string(vs, text) ==
    IF text = <<>> THEN <<>>
    ELSE IF Head(text) = "$" /\ Len(text) >= 2 /\ text[2] = "$"
         THEN <<"$">> \o expand_string(vs, Drop(text, 2))
    ELSE IF Head(text) = "$" /\ WordRun(Tail(text)) > 0
         THEN LET n == WordRun(Tail(text))
              IN  VarsGet(vs, SubSeq(text, 2, n + 1))
                      \o expand_string(vs, Drop(text, n + 1))
    ELSE <<Head(text)>> \o expand_string(vs, Tail(text))


\* ------------------------------------------------------- the node tree

\* KdlEntry: positional (named = FALSE) or keyed; the value is a string
\* (str = TRUE) or another scalar, held as its printed form.
Arg(text) == [named |-> FALSE, key |-> <<>>, str |-> TRUE, val |-> text]
Prop(k, text) == [named |-> TRUE, key |-> k, str |-> TRUE, val |-> text]
IntArg(digits) == [named |-> FALSE, key |-> <<>>, str |-> FALSE, val |-> digits]

\* KdlNode: block says whether the node has a children block at all
\* (`p {}` has one, `p` has none); kids are the nodes of the block.
Leaf(name, entries) ==
    [name |-> name, entries |-> entries, block |-> FALSE, kids |-> <<>>]
Block(name, entries, kids) ==
    [name |-> name, entries |-> entries, block |-> TRUE, kids |-> kids]

\* KdlNode::args of the template crate: the positional entries, in order.
args(node) == SelectSeq(node.entries, LAMBDA e : ~e.named)

\* KdlNode::get(0): the first positional entry, if any.
HasArg0(node) == args(node) # <<>>
Arg0(node) == args(node)[1]

\* KdlNode::get("key"): the last keyed entry of that name, if any.
HasProp(node, k) == \E i \in 1..Len(node.entries) :
    node.entries[i].named /\ node.entries[i].key = k
GetProp(node, k) ==
    LET hits == SelectSeq(node.entries, LAMBDA e : e.named /\ e.key = k)
    IN  hits[Len(hits)]

\* Vars::expand_value: strings are expanded, other scalars are only printed.
expand_value(vs, e) == IF e.str THEN expand_string(vs, e.val) ELSE e.val

\* KdlNode::command_name: the name without its leading '@', if it has one.
IsCommandNode(node) == StartsWith(node.name, "@")
command_name(node) == Tail(node.name)
is_command(node, name) == IsCommandNode(node) /\ command_name(node) = name

IMPORT == <<"i", "m", "p", "o", "r", "t">>
TEMPLATE == <<"t", "e", "m", "p", "l", "a", "t", "e">>
INCLUDE == <<"i", "n", "c", "l", "u", "d", "e">>
DBG == <<"d", "b", "g">>
FOR == <<"f", "o", "r">>
CHILDREN == <<"c", "h", "i", "l", "d", "r", "e", "n">>
PARAMS == <<"@", "p", "a", "r", "a", "m", "s">>
PROPS == <<"p", "r", "o", "p", "s">>

VOID_TAGS == {
    <<"a", "r", "e", "a">>, <<"b", "a", "s", "e">>, <<"b", "r">>,
    <<"c", "o", "l">>, <<"e", "m", "b", "e", "d">>, <<"h", "r">>,
    <<"i", "m", "g">>, <<"i", "n", "p", "u", "t">>, <<"l", "i", "n", "k">>,
    <<"m", "e", "t", "a">>, <<"p", "a", "r", "a", "m">>,
    <<"s", "o", "u", "r", "c", "e">>, <<"t", "r", "a", "c", "k">>,
    <<"w", "b", "r">>, <<"!", "D", "O", "C", "T", "Y", "P", "E">>,
    <<"!", "d", "o", "c", "t", "y", "p", "e">>}

\* find: does the filter hold of the node or of any node below it.  The
\* filter used by the template plugin is always is_command("children").
RECURSIVE find_children_marker(_)
find_children_marker(node) ==
    \/ is_command(node, CHILDREN)
    \/ \E i \in 1..Len(node.kids) : find_children_marker(node.kids[i])

\* html_escape::encode_text: & < > become entities.
EscapeChar(c) ==
    IF c = "&" THEN <<"&", "a", "m", "p", ";">>
    ELSE IF c = "<" THEN <<"&", "l", "t", ";">>
    ELSE IF c = ">" THEN <<"&", "g", "t", ";">>
    ELSE <<c>>

RECURSIVE encode_text(_)
encode_text(text) ==
    IF text = <<>> THEN <<>> ELSE EscapeChar(Head(text)) \o encode_text(Tail(text))

LowerSeq == <<"a", "b", "c", "d", "e", "f", "g", "h", "i", "j", "k", "l", "m",
              "n", "o", "p", "q", "r", "s", "t", "u", "v", "w", "x", "y", "z">>
UpperSeq == <<"A", "B", "C", "D", "E", "F", "G", "H", "I", "J", "K", "L", "M",
              "N", "O", "P", "Q", "R", "S", "T", "U", "V", "W", "X", "Y", "Z">>

\* str::to_uppercase, on the characters the model uses.
to_uppercase(text) ==
    [i \in 1..Len(text) |->
        IF text[i] \in Lower
        THEN UpperSeq[CHOOSE j \in 1..Len(LowerSeq) : LowerSeq[j] = text[i]]
        ELSE text[i]]

\* ------------------------------------------------------- template plugin

DigitSeq == <<"0", "1", "2", "3", "4", "5", "6", "7", "8", "9">>

\* usize::to_string
RECURSIVE ToDec(_)
ToDec(n) ==
    IF n < 10 THEN <<DigitSeq[n + 1]>>
    ELSE ToDec(n \div 10) \o <<DigitSeq[(n % 10) + 1]>>

\* KdlNode::keyed_entries: every entry with its variable name, the key of a
\* keyed entry and the running index (from 0) of a positional one.
RECURSIVE keyed_entries_from(_, _)
keyed_entries_from(entries, current_index) ==
    IF entries = <<>> THEN <<>>
    ELSE LET e == Head(entries)
         IN  IF e.named
             THEN <<<<e.key, e>>>> \o keyed_entries_from(Tail(entries), current_index)
             ELSE <<<<ToDec(current_index), e>>>>
                      \o keyed_entries_from(Tail(entries), current_index + 1)

keyed_entries(node) == keyed_entries_from(node.entries, 0)

\* KdlDocument::remove_child: the position of the first node of that name.
ChildIndex(kids, name) ==
    IF \E i \in 1..Len(kids) : kids[i].name = name
    THEN CHOOSE i \in 1..Len(kids) :
            kids[i].name = name /\ \A j \in 1..(i - 1) : kids[j].name # name
    ELSE 0

RemoveAt(seq, i) == SubSeq(seq, 1, i - 1) \o SubSeq(seq, i + 1, Len(seq))

\* The declared parameters of a template: a positional entry of `@params`
\* declares a name, a keyed entry a name with its default value.
TemplateParams(node) ==
    LET i == ChildIndex(node.kids, PARAMS)
    IN  IF i = 0 THEN <<>>
        ELSE [j \in 1..Len(node.kids[i].entries) |->
                LET e == node.kids[i].entries[j]
                IN  [name |-> IF e.named THEN e.key ELSE e.val,
                     has_default |-> e.named,
                     default |-> e]]

\* Template::new, for a node that has a children block: the `@params` child
\* is taken out of the body, and uses_children is found on what is left.
TemplateNew(node) ==
    LET i == ChildIndex(node.kids, PARAMS)
        body == IF i = 0 THEN node ELSE [node EXCEPT !.kids = RemoveAt(@, i)]
    IN  [node |-> body,
         uses_children |-> find_children_marker(body),
         params |-> TemplateParams(node)]

\* Template::is_param
is_param(template, key) ==
    \E i \in 1..Len(template.params) : template.params[i].name = key

\* Template::default_params: the parameters that have a default, in order.
default_params(template) ==
    LET withDefault == SelectSeq(template.params, LAMBDA p : p.has_default)
    IN  [i \in 1..Len(withDefault) |->
            <<withDefault[i].name, withDefault[i].default>>]

\* A mutant of registration: an existing template of that name is kept.
TemplatesInsertKeep(templates, name, template) ==
    IF name \in DOMAIN templates THEN templates
    ELSE [k \in (DOMAIN templates) \cup {name} |->
            IF k = name THEN template ELSE templates[k]]

\* HashMap::insert on the template registry.
TemplatesInsert(templates, name, template) ==
    [k \in (DOMAIN templates) \cup {name} |->
        IF k = name THEN template ELSE templates[k]]

\* TemplatePlugin::should_emit
TemplateShouldEmit(node, templates) ==
    IF ~IsCommandNode(node) THEN "Skip"
    ELSE IF command_name(node) \in {IMPORT, TEMPLATE, INCLUDE} THEN "EmitMut"
    ELSE IF command_name(node) \in {DBG, FOR} THEN "Emit"
    ELSE IF command_name(node) \in DOMAIN templates THEN "Emit"
    ELSE "Skip"

\* A mutant of instantiate_children: the child's own entries give way.
RECURSIVE MergeEntriesAll(_, _)
MergeEntriesAll(child, entries) ==
    IF entries = <<>> THEN child
    ELSE MergeEntriesAll([child EXCEPT !.entries = <<Head(entries)>> \o @],
                         Tail(entries))

\* instantiate_children, for one child: each named entry of the `@children`
\* node the child has no entry for is put in front of the child's entries.
RECURSIVE MergeEntries(_, _)
MergeEntries(child, entries) ==
    IF entries = <<>> THEN child
    ELSE LET e == Head(entries)
             merged == IF e.named /\ ~HasProp(child, e.key)
                       THEN [child EXCEPT !.entries = <<e>> \o @]
                       ELSE child
         IN  MergeEntries(merged, Tail(entries))

instantiate_children(children_node, children) ==
    [i \in 1..Len(children) |-> MergeEntries(children[i], children_node.entries)]

\* The closure handed to for_each_mut, on one node's child list: each
\* `@children` child is replaced by the call's children, the others stay.
RECURSIVE SpliceKids(_, _)
SpliceKids(kids, template_children) ==
    IF kids = <<>> THEN <<>>
    ELSE (IF is_command(Head(kids), CHILDREN)
          THEN instantiate_children(Head(kids), template_children)
          ELSE <<Head(kids)>>) \o SpliceKids(Tail(kids), template_children)

\* A mutant of for_each_mut: the closure is applied to the node only, not to
\* the nodes below it.
for_each_mut_shallow(node, template_children) ==
    IF ~node.block THEN node
    ELSE [node EXCEPT !.kids = SpliceKids(node.kids, template_children)]

\* for_each_mut with that closure: the node first, then each of its (new)
\* children, recursively.
RECURSIVE for_each_mut(_, _)
for_each_mut(node, template_children) ==
    IF ~node.block THEN node
    ELSE LET spliced == SpliceKids(node.kids, template_children)
         IN  [node EXCEPT !.kids =
                [i \in 1..Len(spliced) |-> for_each_mut(spliced[i], template_children)]]

\* KdlEntry::to_string, trimmed: the entry as written in the source.
EntryToString(e) ==
    LET value == IF e.str THEN <<"\"">> \o e.val \o <<"\"">> ELSE e.val
    IN  IF e.named THEN e.key \o <<"=">> \o value ELSE value

\* The variables of a template instantiation (set_variables, first half):
\* the defaults of the declared parameters, then the call's entries, all
\* expanded in the caller's environment.
\* A mutant: the defaults are bound after the call's entries.
TemplateBindingsDefaultsLast(template, caller_vars, call) ==
    LET defaults == default_params(template)
        entries == keyed_entries(call)
    IN  VarsExtend(
            VarsExtend(caller_vars,
                [i \in 1..Len(entries) |->
                    <<entries[i][1], expand_value(caller_vars, entries[i][2])>>]),
            [i \in 1..Len(defaults) |->
                <<defaults[i][1], expand_value(caller_vars, defaults[i][2])>>])

TemplateBindings(template, caller_vars, call) ==
    LET defaults == default_params(template)
        entries == keyed_entries(call)
    IN  VarsExtend(
            VarsExtend(caller_vars,
                [i \in 1..Len(defaults) |->
                    <<defaults[i][1], expand_value(caller_vars, defaults[i][2])>>]),
            [i \in 1..Len(entries) |->
                <<entries[i][1], expand_value(caller_vars, entries[i][2])>>])

\* The special variable `props` (set_variables, second half): the keyed
\* entries of the call that name no parameter, as written, joined by spaces.
TemplateProps(template, call) ==
    LET unused == SelectSeq(call.entries,
                            LAMBDA e : e.named /\ ~is_param(template, e.key))
    IN  Join([i \in 1..Len(unused) |-> EntryToString(unused[i])], <<" ">>)

\* The automatic application of props to the only child of a template
\* (set_variables, last part): props goes before a trailing positional
\* entry, and at the end otherwise.
AutoApplyProps(entries, props) ==
    IF entries # <<>> /\ ~entries[Len(entries)].named
    THEN SubSeq(entries, 1, Len(entries) - 1) \o <<Arg(props)>>
             \o <<entries[Len(entries)]>>
    ELSE entries \o <<Arg(props)>>

\* set_variables: the environment and the body of the instantiation.
set_variables(template, template_node, caller_vars, call) ==
    LET props == TemplateProps(template, call)
    IN  [vars |-> VarsInsert(TemplateBindings(template, caller_vars, call),
                             PROPS, props),
         node |-> IF Len(template_node.kids) = 1
                  THEN [template_node EXCEPT
                            !.kids[1].entries = AutoApplyProps(@, props)]
                  ELSE template_node]

\* ------------------------------------------------------------ the emitter

NoNode == Leaf(<<>>, <<>>)
NoLoop == [name |-> <<>>, rest |-> <<>>]

\* One HtmlEmitter inside an emit() call.  nodes are the nodes of the
\* document not yet visited; document, start and outer remember the whole
\* document, the variables the call began with and the caller's variables
\* when it made the call; kind, via, closing and loop say which construct
\* made the call and what it does when the call returns; filename is the
\* emitter's field of that name, and source remembers the file the nodes of
\* the document were read from.
\* TemplatePlugin::default: no file depends on any.
EmptyGraph == [file \in {} |-> {}]

\* TemplatePlugin::add_path: file_dep_graph.entry(filename).or_default()
add_path(graph, filename) ==
    [file \in (DOMAIN graph) \cup {filename} |->
        IF file \in DOMAIN graph THEN graph[file] ELSE {}]

\* TemplatePlugin::used_files: the keys of the graph
used_files(graph) == DOMAIN graph

Emitter(document, vs, level, templates, kind, via, closing, loop, filename) ==
    [nodes |-> document, document |-> document, start |-> vs, outer |-> vs,
     vars |-> vs, level |-> level, templates |-> templates, kind |-> kind,
     via |-> via, closing |-> closing, loop |-> loop,
     filename |-> filename, source |-> filename,
     file_dep_graph |-> EmptyGraph]

\* The path of the entry file, which the command line hands to build.
EntryFile == <<"m">>

\* HtmlEmitterBuilder::build
build(document) ==
    Emitter(document, EmptyVars, 0, <<>>, "root", NoNode, <<>>, NoLoop, EntryFile)

Top == stack[Len(stack)]
Cur == Head(Top.nodes)
Running ==
    status = "run" /\ stack # <<>> /\ Top.nodes # <<>> /\ Top.kind # "import"

\* HtmlEmitter::write_line
NL == IF indent = 0 THEN <<>> ELSE <<"\n">>

\* HtmlEmitter::indent, for a fixed indentation width
IndentOf(em) == [i \in 1..(em.level * indent) |-> " "]

\* HtmlEmitter::subemitter, and the emit() call emit_tag makes on it.
subemitter(em, document, via, closing) ==
    [Emitter(document, em.vars, em.level + 1, em.templates, "tag", via,
             closing, NoLoop, em.filename) EXCEPT !.source = em.source,
                  !.file_dep_graph = em.file_dep_graph]

\* What a handler did: an error, or the text it wrote, the emitter it
\* leaves behind, and the emit() call it makes on a new emitter, if any.
Failed(msg) ==
    [err |-> TRUE, panic |-> FALSE, msg |-> msg, text |-> <<>>, em |-> Top,
     push |-> FALSE, child |-> Top]
Wrote(em, text) ==
    [err |-> FALSE, panic |-> FALSE, msg |-> "", text |-> text, em |-> em,
     push |-> FALSE, child |-> em]
Calls(em, text, child) ==
    [err |-> FALSE, panic |-> FALSE, msg |-> "", text |-> text, em |-> em,
     push |-> TRUE, child |-> child]

\* A handler that panics: no result at all, the process is gone.
Panicked(msg) ==
    [err |-> FALSE, panic |-> TRUE, msg |-> msg, text |-> <<>>, em |-> Top,
     push |-> FALSE, child |-> Top]

\* A mutant of the `args` loop: an entry with an empty value is written too.
AttrTextKeepEmpty(em, e) ==
    LET value == expand_value(em.vars, e)
    IN  IF e.named
        THEN <<" ">> \o expand_string(em.vars, e.key) \o <<"=", "\"">>
                 \o value \o <<"\"">>
        ELSE <<" ">> \o value

\* The attribute text of one entry (emit_tag, the `args` loop).
AttrText(em, e) ==
    LET value == expand_value(em.vars, e)
    IN  IF value = <<>> THEN <<>>
        ELSE IF e.named
             THEN <<" ">> \o expand_string(em.vars, e.key) \o <<"=", "\"">>
                      \o value \o <<"\"">>
        ELSE <<" ">> \o value

\* Whether emit_tag takes the last entry as the contents of the element.
HasContents(node, name) ==
    /\ name \notin VOID_TAGS
    /\ ~node.block
    /\ node.entries # <<>>
    /\ ~node.entries[Len(node.entries)].named

\* A mutant of the first check of emit_tag: an empty children block passes.
VoidWithChildrenNonEmpty(node, name) ==
    name \in VOID_TAGS /\ node.block /\ node.kids # <<>>

\* The first check of emit_tag: a void tag that has a children block.
VoidWithChildren(node, name) == name \in VOID_TAGS /\ node.block

\* HtmlEmitter::emit_tag
emit_tag(em, node, name, ind) ==
    LET is_void == name \in VOID_TAGS
        attrs == IF HasContents(node, name)
                 THEN SubSeq(node.entries, 1, Len(node.entries) - 1)
                 ELSE node.entries
        open == ind \o <<"<">> \o name
                    \o Concat([i \in 1..Len(attrs) |-> AttrText(em, attrs[i])])
                    \o <<">">>
        close == <<"<", "/">> \o name \o <<">">> \o NL
    IN  IF VoidWithChildren(node, name) THEN Failed("Void tags can't have children")
        ELSE IF is_void THEN Wrote(em, open \o NL)
        ELSE IF HasContents(node, name)
             THEN Wrote(em, open
                            \o expand_value(em.vars, node.entries[Len(node.entries)])
                            \o close)
        ELSE IF node.block
             THEN Calls(em, open \o NL,
                        subemitter(em, node.kids, node, ind \o close))
        ELSE Wrote(em, open \o close)

\* ------------------------------------------------------------- plugins

\* instantiation: the rejection of a call with a children block by a
\* template that has no `@children` (emit_template, first check).
\* A mutant: the check is left out.
RejectsChildrenNever(template, call) == FALSE

RejectsChildren(template, call) == call.block /\ ~template.uses_children

\* The rejection of a call that has `@children` in its own subtree
\* (emit_template, second check).
RejectsMarker(call) == find_children_marker(call)

\* A mutant of the second rejection: the call is dropped without an error.
MarkerRejectionSilent(em) == Wrote(em, <<>>)

\* What the second check returns when it rejects the call.
MarkerRejection(em) ==
    Failed("Template call contain @children. Infinite recursion detected.")

\* TemplatePlugin::emit_template
emit_template(em, name, call) ==
    LET template == em.templates[name]
    IN  IF RejectsChildren(template, call)
        THEN Failed("Template was called with children but does not support it!")
        ELSE IF RejectsMarker(call) THEN MarkerRejection(em)
        ELSE LET template_node == for_each_mut(template.node, call.kids)
                 sv == set_variables(template, template_node, em.vars, call)
             IN  Calls(em, <<>>,
                       [Emitter(sv.node.kids, sv.vars, em.level, em.templates,
                                "template", call, <<>>, NoLoop, em.filename)
                           EXCEPT !.source = em.source,
                  !.file_dep_graph = em.file_dep_graph])

\* i64 from the printed form of an integer value.
RECURSIVE ToNat(_)
ToNat(digits) ==
    IF digits = <<>> THEN 0
    ELSE 10 * ToNat(SubSeq(digits, 1, Len(digits) - 1))
           + (CHOOSE d \in 0..9 : DigitSeq[d + 1] = digits[Len(digits)])

RANGE == <<"@", "r", "a", "n", "g", "e">>

\* (start..=end).step_by(step)
RECURSIVE StepBy(_, _, _)
StepBy(start, end, step) ==
    IF start > end THEN <<>> ELSE <<start>> \o StepBy(start + step, end, step)

\* parse_range: None unless the first value is the string "@range" and the
\* others are one, two or three integers; step_by panics on a step of 0.
parse_range(a) ==
    LET None == [kind |-> "None", values |-> <<>>]
        rest == [i \in 1..(Len(a) - 1) |-> ToNat(a[i + 1].val)]
        n == Len(a) - 1
        start == IF n = 1 THEN 1 ELSE rest[1]
        step == IF n = 3 THEN rest[2] ELSE 1
        end == rest[n]
    IN  IF a = <<>> \/ ~a[1].str \/ a[1].val # RANGE THEN None
        ELSE IF \E i \in 2..Len(a) : a[i].str THEN None
        ELSE IF n \notin {1, 2, 3} THEN None
        ELSE IF step = 0 THEN [kind |-> "Panic", values |-> <<>>]
        ELSE [kind |-> "Some", values |-> StepBy(start, end, step)]

\* The values a `for` goes through: the integers of the range if the
\* arguments after `in` are a range, those arguments themselves otherwise.
ForValues(a) ==
    LET range == parse_range(a)
    IN  IF range.kind = "Some"
        THEN [i \in 1..Len(range.values) |-> IntArg(ToDec(range.values[i]))]
        ELSE a

\* A mutant of the loop: the first of the values is the last.
ForIterationOnce(em, node, name, values) ==
    [Emitter(node.kids, VarsInsert(em.vars, name, expand_value(em.vars, values[1])),
             em.level, em.templates, "for", node, <<>>,
             [name |-> name, rest |-> <<>>], em.filename)
        EXCEPT !.source = em.source,
                  !.file_dep_graph = em.file_dep_graph]

\* One iteration of a `for` loop: a clone of the emitter with the binding
\* name set to the expanded value, emitting the children of the node.
ForIteration(em, node, name, values) ==
    [Emitter(node.kids, VarsInsert(em.vars, name, expand_value(em.vars, values[1])),
             em.level, em.templates, "for", node, <<>>,
             [name |-> name, rest |-> Tail(values)], em.filename)
        EXCEPT !.source = em.source,
                  !.file_dep_graph = em.file_dep_graph]

\* TemplatePlugin::emit_node, FOR
emit_for(em, node) ==
    LET a == args(node)
    IN  IF a = <<>> THEN Failed("for: can't iterate without binding name")
        ELSE IF ~a[1].str THEN Failed("for: expected binding name to be a String")
        ELSE IF Len(a) < 2 \/ ~a[2].str \/ a[2].val # <<"i", "n">>
        THEN Failed("for: expected in keyword after binding name")
        ELSE IF ~node.block THEN Failed("for: expected for node to have children")
        ELSE IF parse_range(SubSeq(a, 3, Len(a))).kind = "Panic"
        THEN Panicked("assertion failed: step != 0")
        ELSE IF ForValues(SubSeq(a, 3, Len(a))) = <<>> THEN Wrote(em, <<>>)
        ELSE Calls(em, <<>>,
                   ForIteration(em, node, a[1].val, ForValues(SubSeq(a, 3, Len(a)))))

NAME == <<"n", "a", "m", "e">>

\* TemplatePlugin::execute_command_mut, TEMPLATE
register_template(em, node) ==
    IF ~HasArg0(node) /\ ~HasProp(node, NAME)
    THEN Failed("template: Template tags must have a name parameter!")
    ELSE IF ~node.block THEN Failed("Template tags must have children!")
    ELSE LET template_name ==
                 expand_value(em.vars,
                     IF HasArg0(node) THEN Arg0(node) ELSE GetProp(node, NAME))
         IN  Wrote([em EXCEPT !.templates =
                        TemplatesInsert(@, template_name, TemplateNew(node))],
                   <<>>)

\* The plugins a builder can hold: the template plugin, and the plugin of
\* the emitter's tests, which claims every node and shouts its name.
ShouldEmit(plugin, node, em) ==
    IF plugin = "shouter" THEN "Emit"
    ELSE TemplateShouldEmit(node, em.templates)

\* A mutant of call_plugin: the loop does not stop at the first plugin that
\* claims the node, so that the last one that claims it has the last word.
RECURSIVE call_plugin_last(_, _, _)
call_plugin_last(i, node, em) ==
    IF i > Len(plugins) THEN [consulted |-> <<>>, by |-> 0, st |-> "Skip"]
    ELSE LET st == ShouldEmit(plugins[i], node, em)
             later == call_plugin_last(i + 1, node, em)
         IN  IF st = "Skip" \/ later.by # 0
             THEN [later EXCEPT !.consulted = <<i>> \o @]
             ELSE [consulted |-> <<i>> \o later.consulted, by |-> i, st |-> st]

\* HtmlEmitter::call_plugin, from plugin i on: the plugins whose should_emit
\* is called, the first one that does not say Skip (0 if none), and what it
\* says.
RECURSIVE call_plugin(_, _, _)
call_plugin(i, node, em) ==
    IF i > Len(plugins) THEN [consulted |-> <<>>, by |-> 0, st |-> "Skip"]
    ELSE LET st == ShouldEmit(plugins[i], node, em)
         IN  IF st = "Skip"
             THEN [call_plugin(i + 1, node, em) EXCEPT !.consulted = <<i>> \o @]
             ELSE [consulted |-> <<i>>, by |-> i, st |-> st]

\* ---------------------------------------------------------- the walker

\* The first three cases of the loop of HtmlEmitter::emit.
IsVariableNode(node) == StartsWith(node.name, "$") /\ HasArg0(node)
IsRawText(node) == node.name = <<"_">> /\ HasArg0(node)
IsTextNode(node) ==
    node.name \in {<<"-">>, <<"t", "e", "x", "t">>} /\ HasArg0(node)
ReachesPlugins(node) ==
    ~IsVariableNode(node) /\ ~IsRawText(node) /\ ~IsTextNode(node)

\* A mutant of variable_node: a name that is already bound keeps its value.
variable_node_keep(vs, node) ==
    IF Tail(node.name) \in DOMAIN vs THEN vs
    ELSE VarsInsert(vs, Tail(node.name), expand_value(vs, Arg0(node)))

\* HtmlEmitter::variable_node
variable_node(vs, node) ==
    VarsInsert(vs, Tail(node.name), expand_value(vs, Arg0(node)))

\* A mutant of Plugin::make_mut: what an emitter's plugin registered is
\* registered with the plugin of the emitter it was cloned from.
AfterChildEmitPlugins(parent, child) == [parent EXCEPT !.templates = child.templates]

\* A mutant of the copy-on-write of Vars: a clone writes through to the map
\* it was cloned from.
AfterChildEmitShared(parent, child) == [parent EXCEPT !.vars = child.vars]

\* Vars::make_mut (Rc::make_mut): an emitter cloned from another writes to
\* its own copy of the variables, so the emitter it was cloned from is
\* what it was when the clone's emit() returns.
AfterChildEmit(parent, child) == parent

\* A mutant of include: the variables of the file are not handed back.
IncludeMergeNone(caller, em) == caller

\* The end of an include (execute_command_mut, INCLUDE): the variables of
\* the emitter that emitted the file are put into the caller's.
IncludeMerge(caller, em) ==
    [caller EXCEPT !.vars =
        [k \in (DOMAIN caller.vars) \cup (DOMAIN em.vars) |->
            IF k \in DOMAIN em.vars THEN em.vars[k] ELSE caller.vars[k]]]

\* The end of an import: its loop worked on the caller's own emitter and
\* plugin, so what it registered and bound is the caller's.
ImportReturn(caller, frame) ==
    [caller EXCEPT !.vars = frame.vars, !.templates = frame.templates,
                   !.file_dep_graph = frame.file_dep_graph]

Advance(em) == [em EXCEPT !.nodes = Tail(@)]
ReplaceTop(em) == [stack EXCEPT ![Len(stack)] = em]

\* A mutant of the propagation: an error ends only the emit() call it
\* happened in, and the call before it goes on with its next node.
PropagateLocal(stk) == SubSeq(stk, 1, Len(stk) - 1)

\* The `?` after every call of a handler and of emit: an error returned at
\* any depth is returned at once by every emit() call that is active.
Propagate(stk) == <<>>

MaxDepth == 6     \* emit() calls the stack of the process has room for

\* Every emit() call below the top-level one is a call inside a handler
\* inside the emit() call above it: the stack of the process has room for
\* so many, and a call beyond that overflows it, which ends the process.
Recursion(r) ==
    IF r.push /\ Len(stack) >= MaxDepth THEN Panicked("stack overflow") ELSE r

\* The effect of one handler on the state.
Apply(op, d, result) ==
    LET r == Recursion(result)
        after == IF r.panic THEN <<>>
                 ELSE IF r.err THEN Propagate(stack)
                 ELSE IF r.push
                      THEN ReplaceTop(Advance(r.em))
                               \o <<[r.child EXCEPT !.outer = r.em.vars]>>
                 ELSE ReplaceTop(Advance(r.em))
    IN
    /\ ev' = [op |-> op, err |-> r.err, panic |-> r.panic, msg |-> r.msg,
              node |-> Cur, em |-> Top,
              consulted |-> d.consulted, by |-> d.by, wrote |-> r.text,
              read |-> IF ~r.err /\ ~r.panic /\ r.push
                          /\ r.child.kind \in {"import", "include"}
                       THEN ev.read \cup {r.child.source} ELSE ev.read]
    /\ out' = out \o r.text
    /\ status' = IF r.panic THEN "panic"
                 ELSE IF r.err /\ after = <<>> THEN "err"
                 ELSE status
    /\ stack' = after
    /\ UNCHANGED <<plugins, indent, doc, expandVars, watchVars>>

NoDispatch == [consulted |-> <<>>, by |-> 0, st |-> "Skip"]

VariableNode ==
    /\ Running /\ IsVariableNode(Cur)
    /\ Apply("variable_node", NoDispatch,
             Wrote([Top EXCEPT !.vars = variable_node(@, Cur)], <<>>))

\* HtmlEmitter::emit_raw_text
EmitRawText ==
    /\ Running /\ ~IsVariableNode(Cur) /\ IsRawText(Cur)
    /\ Apply("emit_raw_text", NoDispatch,
             Wrote(Top, IndentOf(Top) \o expand_value(Top.vars, Arg0(Cur)) \o NL))

\* HtmlEmitter::emit_text_node
EmitTextNode ==
    /\ Running /\ ~IsVariableNode(Cur) /\ ~IsRawText(Cur) /\ IsTextNode(Cur)
    /\ Apply("emit_text_node", NoDispatch,
             Wrote(Top, IndentOf(Top)
                        \o encode_text(expand_value(Top.vars, Arg0(Cur))) \o NL))

\* call_plugin, Emit, for the plugin of the tests (ShouterPlugin::emit_node).
CallPluginShouter ==
    /\ Running /\ ReachesPlugins(Cur)
    /\ LET d == call_plugin(1, Cur, Top)
       IN  /\ d.by # 0 /\ d.st = "Emit" /\ plugins[d.by] = "shouter"
           /\ Apply("shouter", d,
                    emit_tag(Top, Cur, to_uppercase(Cur.name), IndentOf(Top)))

\* call_plugin, Emit, TemplatePlugin::emit_node for a `for` node.
CallPluginFor ==
    /\ Running /\ ReachesPlugins(Cur)
    /\ LET d == call_plugin(1, Cur, Top)
       IN  /\ d.by # 0 /\ d.st = "Emit" /\ plugins[d.by] = "template"
           /\ command_name(Cur) = FOR
           /\ Apply("for", d, emit_for(Top, Cur))

\* call_plugin, Emit, TemplatePlugin::emit_node for a call of a template.
CallPluginTemplate ==
    /\ Running /\ ReachesPlugins(Cur)
    /\ LET d == call_plugin(1, Cur, Top)
       IN  /\ d.by # 0 /\ d.st = "Emit" /\ plugins[d.by] = "template"
           /\ command_name(Cur) \notin {FOR, DBG}
           /\ Apply("emit_template", d, emit_template(Top, command_name(Cur), Cur))

\* call_plugin, EmitMut: emit_node_mut on the plugin that asked for it, the
\* changed plugin then taking its place in this emitter's plugin list.
CallPluginRegister ==
    /\ Running /\ ReachesPlugins(Cur)
    /\ LET d == call_plugin(1, Cur, Top)
       IN  /\ d.by # 0 /\ d.st = "EmitMut" /\ plugins[d.by] = "template"
           /\ command_name(Cur) = TEMPLATE
           /\ Apply("template", d, register_template(Top, Cur))

\* The last case of the loop of emit: no plugin claimed the node.
EmitCompound ==
    /\ Running /\ ReachesPlugins(Cur)
    /\ LET d == call_plugin(1, Cur, Top)
       IN  /\ d.by = 0
           /\ Apply("emit_tag", d, emit_tag(Top, Cur, Cur.name, IndentOf(Top)))

\* The end of the loop of emit: the call returns Ok to whoever made it. The
\* top-level call ends the build; emit_tag writes the closing tag; a `for`
\* goes on to its next value.
Return ==
    /\ status = "run" /\ stack # <<>> /\ Top.nodes = <<>>
    /\ ev' = [op |-> IF Len(stack) > 1 /\ Top.kind = "for" /\ Top.loop.rest # <<>>
                     THEN "iterate" ELSE "return",
              err |-> FALSE, panic |-> FALSE, msg |-> "", node |-> Top.via,
              em |-> Top,
              consulted |-> <<>>, by |-> 0, wrote |-> Top.closing,
              read |-> ev.read]
    /\ out' = out \o Top.closing
    /\ IF Len(stack) = 1
       THEN status' = "ok" /\ stack' = stack
       ELSE LET before == stack[Len(stack) - 1]
                caller == IF Top.kind = "import" THEN ImportReturn(before, Top)
                          ELSE IF Top.kind = "include" THEN IncludeMerge(before, Top)
                          ELSE AfterChildEmit(before, Top)
                below == SubSeq(stack, 1, Len(stack) - 2)
            IN  /\ status' = status
                /\ stack' =
                     IF Top.kind = "for" /\ Top.loop.rest # <<>>
                     THEN below \o <<caller,
                            [ForIteration(caller, Top.via, Top.loop.name, Top.loop.rest)
                                EXCEPT !.outer = caller.vars]>>
                     ELSE below \o <<caller>>
    /\ UNCHANGED <<plugins, indent, doc, expandVars, watchVars>>

\* --------------------------------------------------------------- inputs

MaxSiblings == 3     \* nodes of a document of plain and looping nodes
MaxBody == 2         \* nodes of a template body (besides `@params`)
MaxReg == 3          \* nodes of a document of registrations and calls
MaxSegs == 3         \* segments of an input of expand_string
MaxEntries == 3      \* entries of a plain element
MaxSplice == 2       \* entries of a `@children` node

\* All sequences of at most n elements of S.
SeqsUpTo(S, n) == UNION {[1..k -> S] : k \in 0..n}

nP == <<"p">>
nQ == <<"q">>
nDiv == <<"d", "i", "v">>
nVarX == <<"$", "x">>
nText == <<"-">>
nT == <<"@", "t">>
nU == <<"@", "u">>
nTemplate == <<"@">> \o TEMPLATE
nFor == <<"@">> \o FOR
nChildren == <<"@">> \o CHILDREN
kX == <<"x">>
kK == <<"k">>
kJ == <<"j">>

\* Plain nodes, variable nodes, text nodes, raw text, an element with a
\* scope of its own and a loop.
SiblingPool == {
    Leaf(nVarX, <<Arg(<<"a">>)>>),
    Leaf(nVarX, <<Arg(<<"b", "$", "x">>)>>),
    Leaf(nText, <<Arg(<<"$", "x", "<">>)>>),
    Leaf(nP, <<Prop(kK, <<"$", "x">>), Arg(<<"c">>)>>),
    Block(nDiv, <<>>, <<Leaf(nText, <<Arg(<<"$", "x">>)>>),
                       Leaf(nVarX, <<Arg(<<"c">>)>>),
                       Leaf(nText, <<Arg(<<"$", "x">>)>>)>>),
    Leaf(<<"_">>, <<Arg(<<"<", "$", "x">>)>>),
    Block(nFor, <<Arg(<<"i">>), Arg(<<"i", "n">>), Arg(<<"a">>), Arg(<<"$", "x">>)>>,
          <<Leaf(nVarX, <<Arg(<<"$", "x", "$", "i">>)>>),
            Leaf(nText, <<Arg(<<"$", "x">>)>>)>>)}

PluginLists == {<<>>, <<"template">>, <<"shouter">>,
                <<"template", "shouter">>, <<"shouter", "template">>}

\* Template bodies: the nodes a body is made of, and the `@params` it may
\* begin with.
BodyPool == {
    Leaf(nP, <<Arg(<<"$", "x", "$", "0">>)>>),
    Leaf(nChildren, <<>>),
    Block(nDiv, <<>>, <<Leaf(nChildren, <<Prop(kK, <<"e">>)>>)>>),
    Leaf(nVarX, <<Arg(<<"b">>)>>),
    Leaf(nQ, <<Arg(<<"$", "p", "r", "o", "p", "s">>)>>),
    Leaf(nQ, <<Prop(kK, <<"v">>)>>)}

ParamsPool == {
    <<>>,
    <<Leaf(PARAMS, <<Arg(kX)>>)>>,
    <<Leaf(PARAMS, <<Prop(kX, <<"d", "$", "x">>)>>)>>}

TemplateDefs ==
    {Block(nTemplate, <<Arg(<<"t">>)>>, ps \o body) :
        ps \in ParamsPool, body \in SeqsUpTo(BodyPool, MaxBody)}

CallEntries == {
    <<>>,
    <<Arg(<<"c">>)>>,
    <<Prop(kX, <<"c">>)>>,
    <<Prop(kK, <<"$", "x">>)>>,
    <<Prop(kK, <<"f">>), Arg(<<"c">>), Prop(kX, <<"g">>)>>}

CallBlocks == {
    <<>>,
    <<Leaf(nP, <<Arg(<<"h">>)>>)>>,
    <<Leaf(nChildren, <<>>)>>,
    <<Block(nDiv, <<>>, <<Leaf(nChildren, <<>>)>>)>>}

TemplateCalls ==
    {Leaf(nT, es) : es \in CallEntries}
        \cup {Block(nT, es, kids) : es \in CallEntries, kids \in CallBlocks}

\* $x "a"; @template "t" { ... }; @t ...; - "$x$props"
TemplateDocs ==
    {<<Leaf(nVarX, <<Arg(<<"a">>)>>), def, call,
       Leaf(nText, <<Arg(<<"$", "x", "$", "p", "r", "o", "p", "s">>)>>)>> :
        def \in TemplateDefs, call \in TemplateCalls}

\* Registrations of one name with different bodies, calls, a registration
\* inside an element, and a template whose body calls another.
RegPool == {
    Block(nTemplate, <<Arg(<<"t">>)>>, <<Leaf(nP, <<Arg(<<"a">>)>>)>>),
    Block(nTemplate, <<Arg(<<"t">>)>>, <<Leaf(nP, <<Arg(<<"b">>)>>)>>),
    Leaf(nT, <<>>),
    Block(nDiv, <<>>,
          <<Block(nTemplate, <<Arg(<<"t">>)>>, <<Leaf(nP, <<Arg(<<"c">>)>>)>>),
            Leaf(nT, <<>>)>>),
    Block(nTemplate, <<Prop(NAME, <<"u">>)>>, <<Leaf(nT, <<>>)>>),
    Leaf(nU, <<>>)}

\* Entries of a `@children` node, and children of a call that have and
\* have not entries of the same names.
SpliceEntryPool == {Prop(kK, <<"e">>), Prop(kJ, <<"d">>), Arg(<<"z">>)}

SpliceChildren == {
    <<Leaf(nP, <<Arg(<<"h">>)>>)>>,
    <<Leaf(nP, <<Prop(kK, <<"o">>), Arg(<<"h">>)>>)>>,
    <<Leaf(nP, <<Arg(<<"h">>), Prop(kJ, <<"o">>), Prop(kK, <<"o">>)>>)>>,
    <<Leaf(nP, <<Prop(kJ, <<"o">>)>>), Block(nDiv, <<>>, <<Leaf(nP, <<>>)>>)>>}

\* @template "t" { q; @children ... }; @t { ... }
SpliceDocs ==
    {<<Block(nTemplate, <<Arg(<<"t">>)>>, <<Leaf(nQ, <<>>), Leaf(nChildren, es)>>),
       Block(nT, <<>>, kids)>> :
        es \in SeqsUpTo(SpliceEntryPool, MaxSplice), kids \in SpliceChildren}

\* Plain elements: every void name and one other, with and without a
\* children block, with attributes whose value may expand to nothing.
TagEntryPool == {
    Arg(<<"$", "x">>),
    Prop(kK, <<"v">>),
    Prop(kK, <<"$", "e">>),
    Prop(kJ, <<"$", "x">>)}

TagNodes ==
    LET names == VOID_TAGS \cup {nP}
        lists == SeqsUpTo(TagEntryPool, MaxEntries)
    IN  {Leaf(n, es) : n \in names, es \in lists}
          \cup {Block(n, es, kids) : n \in names, es \in lists,
                    kids \in {<<>>, <<Leaf(nText, <<Arg(<<"t">>)>>)>>}}

\* $x "a<"; $e ""; the element
TagDocs ==
    {<<Leaf(nVarX, <<Arg(<<"a", "<">>)>>), Leaf(<<"$", "e">>, <<Arg(<<>>)>>), node>> :
        node \in TagNodes}

\* Uses and misuses of `for` and `template`, and a void tag with children.
sIn == Arg(<<"i", "n">>)
sI == Arg(<<"i">>)
sRange == Arg(RANGE)
tI == Leaf(nText, <<Arg(<<"$", "i">>)>>)

MisusePool == {
    Block(nFor, <<>>, <<tI>>),
    Block(nFor, <<IntArg(<<"1">>), sIn, Arg(<<"a">>)>>, <<tI>>),
    Block(nFor, <<sI, Arg(<<"a">>)>>, <<tI>>),
    Leaf(nFor, <<sI, sIn, Arg(<<"a">>)>>),
    Block(nTemplate, <<>>, <<Leaf(nP, <<>>)>>),
    Leaf(nTemplate, <<Arg(<<"t">>)>>),
    Block(<<"b", "r">>, <<>>, <<>>),
    Block(nFor, <<sI, sIn, sRange, IntArg(<<"1">>), IntArg(<<"0">>), IntArg(<<"3">>)>>,
          <<tI>>),
    Block(nFor, <<sI, sIn, sRange, Arg(<<"x">>)>>, <<tI>>),
    Block(nFor, <<sI, sIn, sRange, IntArg(<<"1">>), IntArg(<<"2">>), IntArg(<<"3">>),
                  IntArg(<<"4">>)>>, <<tI>>),
    Block(nFor, <<sI, sIn, sRange>>, <<tI>>),
    Block(nFor, <<sI, sIn>>, <<tI>>),
    Block(nFor, <<sI, sIn, sRange, IntArg(<<"3">>)>>, <<tI>>),
    Block(nFor, <<sI, sIn, sRange, IntArg(<<"2">>), IntArg(<<"3">>)>>, <<tI>>),
    Block(nFor, <<sI, sIn, sRange, IntArg(<<"1">>), IntArg(<<"2">>), IntArg(<<"5">>)>>,
          <<tI>>),
    Block(nFor, <<sI, sIn, sRange, IntArg(<<"1">>), IntArg(<<"2">>), IntArg(<<"4">>)>>,
          <<tI>>),
    Block(nFor, <<sI, sIn, sRange, IntArg(<<"3">>), IntArg(<<"2">>)>>, <<tI>>)}

\* The node at the top level, inside an element, and inside a loop inside an
\* element, each time with nodes before and after it.
MisuseDocs ==
    LET t(c) == Leaf(nText, <<Arg(<<c>>)>>)
    IN  {<<t("t"), n, t("v")>> : n \in MisusePool}
          \cup {<<t("t"), Block(nDiv, <<>>, <<n, t("u")>>), t("v")>> : n \in MisusePool}
          \cup {<<t("t"),
                  Block(nDiv, <<>>,
                      <<Block(nFor, <<Arg(<<"j">>), sIn, Arg(<<"a">>), Arg(<<"b">>)>>,
                              <<Leaf(nText, <<Arg(<<"$", "j">>)>>), n, t("w")>>),
                        t("u")>>),
                  t("v")>> : n \in MisusePool}

NoEvent ==
    [op |-> "init", err |-> FALSE, panic |-> FALSE, msg |-> "", node |-> NoNode,
     em |-> build(<<>>), consulted |-> <<>>, by |-> 0, wrote |-> <<>>,
     read |-> {}]

ExpandOff == xsegs = <<>> /\ xvars = EmptyVars /\ xres = <<"-">>

\* Watcher::new: nothing watched; last_time is the time of its creation.
NewWatcher(time) == [dirs |-> {}, files |-> {}, last_time |-> time]

\* Not in watch mode.
WatchOff ==
    /\ pc = "off" /\ watcher = NewWatcher(0) /\ rx = <<>> /\ now = 0
    /\ project = [ok |-> TRUE, used |-> {}]
    /\ compiled = [ok |-> FALSE, paths |-> {}]
    /\ pending = {}

\* ------------------------------------------------------- specifications

Init ==
    /\ \/ /\ doc \in SeqsUpTo(SiblingPool, MaxSiblings)
          /\ plugins \in PluginLists
          /\ indent \in {0, 4}
       \/ /\ doc \in TemplateDocs
          /\ plugins = <<"template">>
          /\ indent = 4
       \/ /\ doc \in MisuseDocs
          /\ plugins = <<"template">>
          /\ indent \in {0, 4}
       \/ /\ doc \in TagDocs
          /\ plugins = <<>>
          /\ indent \in {0, 4}
       \/ /\ doc \in SpliceDocs
          /\ plugins = <<"template">>
          /\ indent = 4
       \/ /\ doc \in SeqsUpTo(RegPool, MaxReg)
          /\ plugins \in {<<"template">>, <<"template", "shouter">>,
                          <<"shouter", "template">>}
          /\ indent = 0
    /\ stack = <<build(doc)>>
    /\ out = <<>>
    /\ status = "run"
    /\ ev = NoEvent
    /\ ExpandOff
    /\ WatchOff

Next ==
    \/ VariableNode
    \/ EmitRawText
    \/ EmitTextNode
    \/ CallPluginShouter
    \/ CallPluginFor
    \/ CallPluginTemplate
    \/ CallPluginRegister
    \/ EmitCompound
    \/ Return

Spec == Init /\ [][Next]_vars

\* ---------------------------------------------------------------- files

\* Path::parent: the path without its last component.
RECURSIVE parent(_)
parent(path) ==
    IF path = <<>> THEN <<>>
    ELSE IF path[Len(path)] = "/" THEN SubSeq(path, 1, Len(path) - 1)
    ELSE parent(SubSeq(path, 1, Len(path) - 1))

\* Path::join, for a relative path
join(dir, rel) == IF dir = <<>> THEN rel ELSE dir \o <<"/">> \o rel

nImport == <<"@">> \o IMPORT
nInclude == <<"@">> \o INCLUDE
import(path) == Leaf(nImport, <<Arg(path)>>)
include(path) == Leaf(nInclude, <<Arg(path)>>)
TemplateFile(name, text) ==
    Block(nTemplate, <<Arg(name)>>, <<Leaf(nP, <<Arg(text)>>)>>)

\* The files there are besides the entry file `m`, which is in the same
\* directory as b, c, d, f, g, h, i, j, r, s and w; l is a directory. r
\* imports itself, s includes itself, g includes h and h imports g.
Files ==
    (<<"d">> :> <<TemplateFile(<<"t">>, <<"d">>), Leaf(nText, <<Arg(<<"n">>)>>),
                  Leaf(<<"$", "y">>, <<Arg(<<"1">>)>>), Leaf(nP, <<Arg(<<"q">>)>>)>>)
    @@ (<<"l", "/", "a">> :> <<import(<<"b">>)>>)
    @@ (<<"l", "/", "b">> :> <<TemplateFile(<<"t">>, <<"l", "b">>)>>)
    @@ (<<"b">> :> <<TemplateFile(<<"t">>, <<"b">>)>>)
    @@ (<<"l", "/", "c">> :> <<import(<<"z">>)>>)
    @@ (<<"l", "/", "z">> :> <<TemplateFile(<<"u">>, <<"z">>)>>)
    @@ (<<"w">> :> <<include(<<"i">>)>>)
    @@ (<<"i">> :> <<Leaf(nText, <<Arg(<<"$", "x">>)>>), Leaf(nVarX, <<Arg(<<"i">>)>>),
                     Leaf(<<"_">>, <<Arg(<<"<", "$", "x">>)>>)>>)
    @@ (<<"f">> :> <<Block(nFor, <<Arg(<<"i">>), Arg(<<"i", "n">>), Arg(<<"a">>)>>,
                           <<Leaf(nText, <<Arg(<<"$", "i">>)>>)>>)>>)
    @@ (<<"c">> :> <<Leaf(nT, <<>>)>>)
    @@ (<<"j">> :> <<include(<<"i">>), Leaf(nText, <<Arg(<<"$", "x">>)>>)>>)
    @@ (<<"r">> :> <<Leaf(nText, <<Arg(<<"r">>)>>), import(<<"r">>)>>)
    @@ (<<"s">> :> <<Leaf(nText, <<Arg(<<"s">>)>>), include(<<"s">>)>>)
    @@ (<<"g">> :> <<include(<<"h">>)>>)
    @@ (<<"h">> :> <<import(<<"g">>)>>)

\* Path::exists
exists(path) == path \in DOMAIN Files

\* execute_command_mut, IMPORT: the loop over the nodes of the file, which
\* works on the emitter and the plugin of the node that imports.
ImportFrame(em, node, filename) ==
    [Emitter(Files[filename], em.vars, em.level, em.templates, "import", node,
             <<>>, NoLoop, em.filename)
        EXCEPT !.source = filename, !.file_dep_graph = em.file_dep_graph]

\* execute_command_mut, INCLUDE: a clone of the emitter emits the file.
IncludeFrame(em, node, filename) ==
    [Emitter(Files[filename], em.vars, em.level, em.templates, "include", node,
             <<>>, NoLoop, em.filename)
        EXCEPT !.source = filename, !.file_dep_graph = em.file_dep_graph]

\* execute_command_mut, "Register dependency on `filename`"
RegisterDependency(graph, current_filename, filename) ==
    LET g == add_path(graph, current_filename)
    IN  add_path([g EXCEPT ![current_filename] = @ \cup {filename}], filename)

\* execute_command_mut, IMPORT | INCLUDE
import_file(em, node) ==
    IF ~HasArg0(node) THEN Failed("Import tags must have path")
    ELSE IF ~Arg0(node).str THEN Failed("Import tags must only receive strings")
    ELSE LET filename == join(parent(em.filename),
                              expand_string(em.vars, Arg0(node).val))
             registered == [em EXCEPT !.file_dep_graph =
                               RegisterDependency(@, em.filename, filename)]
         IN  IF ~exists(filename) THEN Failed("Failed to find file")
             ELSE IF command_name(node) = IMPORT
                  THEN Calls(registered, <<>>, ImportFrame(registered, node, filename))
             ELSE Calls(registered, <<>>, IncludeFrame(registered, node, filename))

\* TemplatePlugin::execute_command_mut
execute_command_mut(em, node) ==
    IF command_name(node) = CHILDREN THEN Failed("@children is a reserved name.")
    ELSE IF command_name(node) = TEMPLATE THEN register_template(em, node)
    ELSE IF command_name(node) \in {IMPORT, INCLUDE} THEN import_file(em, node)
    ELSE Failed("Unexpected tag")

\* call_plugin, EmitMut, emit_node_mut for an `import` node.
CallPluginImport ==
    /\ Running /\ ReachesPlugins(Cur)
    /\ LET d == call_plugin(1, Cur, Top)
       IN  /\ d.by # 0 /\ d.st = "EmitMut" /\ plugins[d.by] = "template"
           /\ command_name(Cur) = IMPORT
           /\ Apply("import", d, execute_command_mut(Top, Cur))

\* call_plugin, EmitMut, emit_node_mut for an `include` node.
CallPluginInclude ==
    /\ Running /\ ReachesPlugins(Cur)
    /\ LET d == call_plugin(1, Cur, Top)
       IN  /\ d.by # 0 /\ d.st = "EmitMut" /\ plugins[d.by] = "template"
           /\ command_name(Cur) = INCLUDE
           /\ Apply("include", d, execute_command_mut(Top, Cur))

Importing ==
    status = "run" /\ stack # <<>> /\ Top.nodes # <<>> /\ Top.kind = "import"

\* The loop of an import, on a node that is no command: nothing is done.
ImportSkip ==
    /\ Importing /\ ~IsCommandNode(Cur)
    /\ Apply("skip", NoDispatch, Wrote(Top, <<>>))

\* The loop of an import, on a command node: execute_command_mut.
ImportCommand ==
    /\ Importing /\ IsCommandNode(Cur)
    /\ Apply(IF command_name(Cur) = IMPORT THEN "import"
             ELSE IF command_name(Cur) = INCLUDE THEN "include"
             ELSE IF command_name(Cur) = TEMPLATE THEN "template"
             ELSE "command",
             NoDispatch, execute_command_mut(Top, Cur))

MaxImports == 2      \* import and include nodes of an entry file

\* Imports and includes of the files, of a file that is not there, without
\* a path, with a path that is no string, and inside an element.
FilePool == {
    import(<<"d">>), include(<<"d">>),
    import(<<"l", "/", "a">>), import(<<"l", "/", "c">>),
    import(<<"w">>), include(<<"i">>), include(<<"j">>),
    import(<<"f">>), include(<<"f">>), include(<<"c">>),
    import(<<"x">>), include(<<"x">>),
    Leaf(nImport, <<>>), Leaf(nInclude, <<IntArg(<<"1">>)>>),
    Block(nDiv, <<>>, <<include(<<"i">>)>>)}

\* $x "a"; imports and includes; @t; - "$x$y"
FileDocs ==
    {<<Leaf(nVarX, <<Arg(<<"a">>)>>)>> \o nodes
        \o <<Leaf(nT, <<>>), Leaf(nText, <<Arg(<<"$", "x", "$", "y">>)>>)>> :
        nodes \in SeqsUpTo(FilePool, MaxImports)}

InitFiles ==
    /\ \/ /\ doc \in FileDocs
          /\ plugins \in {<<"template">>, <<"template", "shouter">>}
          /\ indent = 4
       \/ /\ doc \in MisuseDocs
          /\ plugins = <<"template">>
          /\ indent = 4
    /\ stack = <<build(doc)>>
    /\ out = <<>>
    /\ status = "run"
    /\ ev = NoEvent
    /\ ExpandOff
    /\ WatchOff

NextFiles ==
    \/ Next
    \/ CallPluginImport
    \/ CallPluginInclude
    \/ ImportSkip
    \/ ImportCommand

SpecFiles == InitFiles /\ [][NextFiles]_vars

\* --------------------------------------------------------------- cycles

\* Files that import and include themselves and each other, a template
\* whose body calls the template, and two templates that call each other.
CycleDocs == {
    <<import(<<"r">>)>>,
    <<include(<<"s">>)>>,
    <<include(<<"g">>)>>,
    <<Block(nDiv, <<>>, <<import(<<"g">>)>>)>>,
    <<Block(nTemplate, <<Arg(<<"t">>)>>, <<Leaf(nP, <<>>), Leaf(nT, <<>>)>>),
      Leaf(nT, <<>>)>>,
    <<Block(nTemplate, <<Arg(<<"t">>)>>, <<Leaf(nU, <<>>)>>),
      Block(nTemplate, <<Arg(<<"u">>)>>, <<Block(nDiv, <<>>, <<Leaf(nT, <<>>)>>)>>),
      Leaf(nU, <<>>)>>}

InitCycles ==
    /\ \/ /\ doc \in CycleDocs
          /\ plugins = <<"template">>
          /\ indent \in {0, 4}
       \/ /\ doc \in SeqsUpTo(FilePool, 1)
          /\ plugins \in {<<"template">>, <<"template", "shouter">>}
          /\ indent = 4
    /\ stack = <<build(doc)>>
    /\ out = <<>>
    /\ status = "run"
    /\ ev = NoEvent
    /\ ExpandOff
    /\ WatchOff

\* A build goes on as long as it has a step to take.
SpecCycles == InitCycles /\ [][NextFiles]_vars /\ WF_vars(NextFiles)

\* ---------------------------------------------------------------- reuse

\* Documents for a second emit() call on the emitter of a finished one.
ReuseDocs == {
    <<Leaf(nText, <<Arg(<<"$", "x">>)>>)>>,
    <<Leaf(nVarX, <<Arg(<<"b", "$", "x">>)>>), Leaf(nP, <<Arg(<<"$", "x">>)>>)>>,
    <<Block(nTemplate, <<Arg(<<"t">>)>>, <<Leaf(nP, <<Arg(<<"$", "x">>)>>)>>),
      Leaf(nT, <<>>)>>}

\* A second call of HtmlEmitter::emit on the same emitter, after the first
\* has returned Ok: the loop starts on the new document with the emitter
\* as the first call left it.
EmitAgain ==
    /\ status = "ok" /\ stack[1].document = doc
    /\ \E document \in ReuseDocs \ {doc} :
          stack' = <<[stack[1] EXCEPT !.nodes = document, !.document = document,
                                      !.start = stack[1].vars,
                                      !.outer = stack[1].vars]>>
    /\ status' = "run"
    /\ ev' = [op |-> "emit", err |-> FALSE, panic |-> FALSE, msg |-> "",
              node |-> NoNode, em |-> stack[1], consulted |-> <<>>, by |-> 0,
              wrote |-> <<>>, read |-> ev.read]
    /\ UNCHANGED <<out, plugins, indent, doc, expandVars, watchVars>>

InitReuse ==
    /\ doc \in SeqsUpTo(SiblingPool, 1)
    /\ plugins \in PluginLists
    /\ indent \in {0, 4}
    /\ stack = <<build(doc)>>
    /\ out = <<>>
    /\ status = "run"
    /\ ev = NoEvent
    /\ ExpandOff
    /\ WatchOff

NextReuse ==
    \/ Next
    \/ EmitAgain

SpecReuse == InitReuse /\ [][NextReuse]_vars

\* ---- watch mode (htmeta-cli)
\*
\* `htmeta --watch m` builds m, then waits for a change of a watched file and
\* builds again, for ever.  A build is taken here by its result alone: whether
\* it passes and which files it read is what `project` says the disk holds.

DEBOUNCE_TIME == 5

MaxTime == 6
MaxQueue == 2

\* The files of the project beside the entry file: one in the entry file's
\* directory, one in another directory.
OtherFiles == {<<"a">>, <<"l", "/", "b">>}
WatchPaths == {EntryFile} \cup OtherFiles

\* What the disk can hold: a project that builds or not, importing some files.
Projects == [ok : BOOLEAN, used : SUBSET OtherFiles]

\* compile(): Err if the build fails, else the keys of the dependency graph:
\* none for a document without imports, else the entry file and the imports.
compile(on_disk) ==
    IF ~on_disk.ok THEN [ok |-> FALSE, paths |-> {}]
    ELSE [ok |-> TRUE,
          paths |-> IF on_disk.used = {} THEN {} ELSE {EntryFile} \cup on_disk.used]

\* Watcher::add_file: watch the directory, remember the file.
add_file(w, file_path) ==
    [w EXCEPT !.dirs = @ \cup {parent(file_path)}, !.files = @ \cup {file_path}]

RECURSIVE add_files(_, _)
add_files(w, paths) ==
    IF paths = {} THEN w
    ELSE LET x == CHOOSE x \in paths : TRUE
         IN  add_files(add_file(w, x), paths \ {x})

\* Watcher::clear: every directory is unwatched; `files` is left as it is.
clear(w) == [w EXCEPT !.dirs = {}]

\* The paths whose change makes wait_for_change return: the notifier reports
\* the change (the directory is watched) and the filter lets it through.
Triggers(w) == {p \in w.files : parent(p) \in w.dirs}

\* The notifier sends an event for a path in a watched directory.
Notify(queue, path, access) ==
    IF parent(path) \in watcher.dirs
    THEN Append(queue, [path |-> path, access |-> access])
    ELSE queue

\* do_compile: a failed build leaves the watcher alone; a build that passes
\* clears it, then adds the paths of the build, then the entry file.
DoCompile ==
    /\ pc = "compile"
    /\ LET result == compile(project)
       IN  /\ compiled' = result
           /\ watcher' = IF result.ok
                         THEN add_file(add_files(clear(watcher), result.paths), EntryFile)
                         ELSE watcher
    /\ pc' = "wait"
    /\ pending' = {}
    /\ UNCHANGED <<rx, now, project, walkerVars, expandVars>>

\* One turn of the loop of wait_for_change: take an event; return if it is not
\* an access, names a remembered file and the last return is DEBOUNCE_TIME ago.
Recv ==
    /\ pc = "wait"
    /\ rx # <<>>
    /\ LET event == Head(rx)
           accepted == /\ ~event.access
                       /\ event.path \in watcher.files
                       /\ now - watcher.last_time >= DEBOUNCE_TIME
       IN  /\ watcher' = IF accepted THEN [watcher EXCEPT !.last_time = now] ELSE watcher
           /\ pc' = IF accepted THEN "compile" ELSE "wait"
    /\ rx' = Tail(rx)
    /\ UNCHANGED <<now, project, compiled, pending, walkerVars, expandVars>>

\* Somebody saves a file: the entry file may now hold any document, another
\* file may make or break the build.
Change ==
    /\ pc \in {"compile", "wait"}
    /\ Len(rx) < MaxQueue
    /\ \E path \in WatchPaths :
        /\ project' \in {p \in Projects : path # EntryFile => p.used = project.used}
        /\ rx' = Notify(rx, path, FALSE)
        /\ pending' = IF path \in Triggers(watcher)
                      THEN pending \cup {path} ELSE pending
    /\ UNCHANGED <<pc, watcher, now, compiled, walkerVars, expandVars>>

\* Somebody reads a file.
Access ==
    /\ pc \in {"compile", "wait"}
    /\ Len(rx) < MaxQueue
    /\ \E path \in WatchPaths :
        /\ parent(path) \in watcher.dirs
        /\ rx' = Notify(rx, path, TRUE)
    /\ UNCHANGED <<pc, watcher, now, project, compiled, pending, walkerVars, expandVars>>

\* A millisecond passes.
Tick ==
    /\ pc \in {"compile", "wait"}
    /\ now < MaxTime
    /\ now' = now + 1
    /\ UNCHANGED <<pc, watcher, rx, project, compiled, pending, walkerVars, expandVars>>

\* watcher(): a new Watcher, then the first do_compile.
InitWatch ==
    /\ stack = <<>> /\ out = <<>> /\ status = "off" /\ plugins = <<>>
    /\ indent = 0 /\ doc = <<>> /\ ev = NoEvent
    /\ ExpandOff
    /\ pc = "compile"
    /\ now = 0
    /\ watcher = NewWatcher(now)
    /\ rx = <<>>
    /\ project \in Projects
    /\ compiled = [ok |-> FALSE, paths |-> {}]
    /\ pending = {}

NextWatch == DoCompile \/ Recv \/ Change \/ Access \/ Tick

\* The program takes its steps; nobody has to save a file.
SpecWatch == InitWatch /\ [][NextWatch]_vars /\ WF_vars(DoCompile) /\ WF_vars(Recv)

\* ---- expand_string on its own

\* An input of expand_string is drawn as a sequence of segments: literal
\* text without `$`, a variable `$name`, the escape `$$`, and a `$` that
\* starts neither (at the end, or before a character that is no word
\* character and no `$`).
Lit(text) == [kind |-> "lit", text |-> text]
Var(name) == [kind |-> "var", text |-> name]
Esc == [kind |-> "esc", text |-> <<>>]
Lone == [kind |-> "lone", text |-> <<>>]

SegPool == {Lit(<<"a">>), Lit(<<"-">>), Var(<<"x">>), Var(<<"x", "y">>),
            Var(<<"z">>), Esc, Lone}

SegText(s) ==
    IF s.kind = "lit" THEN s.text
    ELSE IF s.kind = "var" THEN <<"$">> \o s.text
    ELSE IF s.kind = "esc" THEN <<"$", "$">>
    ELSE <<"$">>

\* The segments are what the text is read as: a name is not followed by
\* more word characters, and a lone `$` is followed by neither a word
\* character nor a `$`.
WellFormed(segs) ==
    \A i \in 1..Len(segs) :
        /\ segs[i].kind = "var" /\ i < Len(segs)
              => ~IsWord(Head(SegText(segs[i + 1])))
        /\ segs[i].kind = "lone" /\ i < Len(segs)
              => /\ ~IsWord(Head(SegText(segs[i + 1])))
                 /\ Head(SegText(segs[i + 1])) # "$"

ValuePool == {<<"b">>, <<"$", "x">>, <<"c", "$", "$">>}

\* The environments: x and xy bound or not; z is never bound.
EnvPool ==
    {EmptyVars} \cup
    {VarsInsert(EmptyVars, <<"x">>, v) : v \in ValuePool} \cup
    {VarsInsert(EmptyVars, <<"x", "y">>, v) : v \in ValuePool} \cup
    {VarsInsert(VarsInsert(EmptyVars, <<"x">>, v), <<"x", "y">>, w) :
        v \in ValuePool, w \in ValuePool}

InitExpand ==
    /\ xsegs \in {s \in SeqsUpTo(SegPool, MaxSegs) : WellFormed(s)}
    /\ xvars \in EnvPool
    /\ xres = <<>>
    /\ stack = <<>> /\ out = <<>> /\ status = "off" /\ plugins = <<>>
    /\ indent = 0 /\ doc = <<>> /\ ev = NoEvent
    /\ WatchOff

XInput == Concat([i \in 1..Len(xsegs) |-> SegText(xsegs[i])])

ExpandString ==
    /\ status = "off" /\ xres = <<>>
    /\ xres' = <<expand_string(xvars, XInput)>>
    /\ UNCHANGED <<xsegs, xvars, walkerVars, watchVars>>

NextExpand == ExpandString

SpecExpand == InitExpand /\ [][NextExpand]_vars

\* ------------------------------------------------------------- claims

SegMeaning(s, vs) ==
    IF s.kind = "lit" THEN s.text
    ELSE IF s.kind = "var" THEN VarsGet(vs, s.text)
    ELSE <<"$">>

\* C3: expand_string returns the input with every `$name` replaced by the
\* value of name (nothing if name is unbound) and every `$$` by one `$`, the
\* inserted values not being expanded again; an input without `$` comes
\* back unchanged.
C3_ExpandString ==
    (status = "off" /\ xres # <<>>) =>
        /\ xres[1] = Concat([i \in 1..Len(xsegs) |-> SegMeaning(xsegs[i], xvars)])
        /\ ~Contains(XInput, "$") => xres[1] = XInput

\* An input with a variable whose value holds a `$name` of its own, and a
\* `$$` right before a word character, has been expanded.
C3_Witness ==
    /\ status = "off" /\ xres # <<>>
    /\ \E i \in 1..Len(xsegs) :
            /\ xsegs[i].kind = "var"
            /\ VarsGet(xvars, xsegs[i].text) = <<"$", "x">>
    /\ \E i \in 1..(Len(xsegs) - 1) :
            /\ xsegs[i].kind = "esc"
            /\ xsegs[i + 1] = Lit(<<"a">>)

\* The nodes of its document an emitter has gone past.
Visited(em) == SubSeq(em.document, 1, Len(em.document) - Len(em.nodes))

ScopedKinds == {"tag", "for", "template"}

\* C1: a variable bound inside the children block of an element, the body
\* of a for loop or a template instantiation does not reach the enclosing
\* scope: while the construct is emitted and when it has been emitted, the
\* enclosing emitter has, for every name, the value it had when the
\* construct began.
C1_ScopeIsolation ==
    /\ \A i \in 2..Len(stack) :
            stack[i].kind \in ScopedKinds => stack[i - 1].vars = stack[i].outer
    /\ (status = "run" /\ ev.op \in {"return", "iterate"}
            /\ ev.em.kind \in ScopedKinds)
          => (IF ev.op = "iterate" THEN stack[Len(stack) - 1] ELSE Top).vars
                 = ev.em.outer

\* The body of a for loop has returned after binding, with a `$name value`
\* node of its own, a name that has another value outside.
C1_Witness ==
    /\ status = "run" /\ ev.op = "return" /\ ev.em.kind = "for"
    /\ \E k \in DOMAIN ev.em.vars :
            /\ ev.em.vars[k] # VarsGet(ev.em.start, k)
            /\ ev.em.vars[k] # VarsGet(Top.vars, k)

\* What the variable nodes among the given siblings bind, one after the
\* other, starting from vs.
RECURSIVE FoldBindings(_, _)
FoldBindings(vs, nodes) ==
    IF nodes = <<>> THEN vs
    ELSE LET n == Head(nodes)
         IN  FoldBindings(
                 IF StartsWith(n.name, "$") /\ HasArg0(n)
                 THEN [k \in (DOMAIN vs) \cup {Tail(n.name)} |->
                          IF k = Tail(n.name) THEN expand_value(vs, Arg0(n))
                          ELSE vs[k]]
                 ELSE vs,
                 Tail(nodes))

\* The names a template instantiation binds by itself.
InstantiationNames(template, call) ==
    {PROPS}
        \cup {template.params[i].name : i \in 1..Len(template.params)}
        \cup {e.key : e \in {call.entries[i] : i \in 1..Len(call.entries)}}
        \cup {ToDec(i) : i \in 0..Len(call.entries)}

AgreeOutside(vs, ws, names) ==
    \A k \in ((DOMAIN vs) \cup (DOMAIN ws)) \ names : VarsGet(vs, k) = VarsGet(ws, k)

\* C2: in every scope the variables are those the scope began with, changed
\* by the variable nodes among the siblings gone past, in order (so a
\* binding is seen by all later siblings, and a later binding of a name
\* replaces an earlier one); and the scope of an element's children, of a
\* loop body or of a template body begins with the variables of the
\* enclosing scope at that point, but for the names the construct binds.
C2_SiblingBindings ==
    \A i \in 1..Len(stack) :
        /\ stack[i].vars = FoldBindings(stack[i].start, Visited(stack[i]))
        /\ (i > 1 /\ stack[i].kind = "tag") => stack[i].start = stack[i - 1].vars
        /\ (i > 1 /\ stack[i].kind = "for")
              => AgreeOutside(stack[i].start, stack[i - 1].vars,
                              {stack[i].loop.name})
        /\ (i > 1 /\ stack[i].kind = "template")
              => AgreeOutside(stack[i].start, stack[i - 1].vars,
                    InstantiationNames(
                        stack[i - 1].templates[command_name(stack[i].via)],
                        stack[i].via))

\* After `$x "a"` and `$x "b$x"`, a text node inside a later element has
\* written the second value.
C2_Witness ==
    /\ Len(stack) = 2 /\ Top.kind = "tag" /\ indent = 0
    /\ Visited(stack[1]) = <<Leaf(nVarX, <<Arg(<<"a">>)>>),
                             Leaf(nVarX, <<Arg(<<"b", "$", "x">>)>>),
                             Top.via>>
    /\ ev.op = "emit_text_node" /\ ev.wrote = <<"b", "a">>

DispatchOps == {"shouter", "for", "emit_template", "template", "emit_tag"}

\* C4: the plugins are asked in registration order; the first that does not
\* say Skip handles the node, by emit_node if it said Emit and by
\* emit_node_mut if it said EmitMut; no later plugin is asked and the node
\* is not emitted as a plain tag; the node is emitted as a plain tag only if
\* every plugin said Skip.
C4_PluginDispatch ==
    ev.op \in DispatchOps =>
        LET said(j) == ShouldEmit(plugins[j], ev.node, ev.em)
            claiming == {j \in 1..Len(plugins) : said(j) # "Skip"}
        IN  /\ ev.consulted = [j \in 1..Len(ev.consulted) |-> j]
            /\ IF claiming = {}
               THEN /\ ev.op = "emit_tag" /\ ev.by = 0
                    /\ Len(ev.consulted) = Len(plugins)
               ELSE LET first == CHOOSE j \in claiming : \A l \in claiming : j <= l
                    IN  /\ ev.by = first
                        /\ Len(ev.consulted) = first
                        /\ ev.op # "emit_tag"
                        /\ (plugins[first] = "shouter") = (ev.op = "shouter")
                        /\ (said(first) = "EmitMut") = (ev.op = "template")

\* The first plugin said Skip and the second one handled the node.
C4_Witness ==
    /\ plugins = <<"template", "shouter">>
    /\ ev.op = "shouter" /\ ev.consulted = <<1, 2>> /\ ev.by = 2

TemplateNames == {<<"t">>, <<"u">>}

\* Whether the node is a registration of a template named n.
IsDefOf(node, n) ==
    /\ node.name = nTemplate /\ node.block
    /\ \/ HasArg0(node) /\ Arg0(node).val = n
       \/ ~HasArg0(node) /\ HasProp(node, NAME) /\ GetProp(node, NAME).val = n

\* The last registration of n among the nodes: <<>> if there is none.
RECURSIVE LastDef(_, _)
LastDef(nodes, n) ==
    IF nodes = <<>> THEN <<>>
    ELSE IF IsDefOf(nodes[Len(nodes)], n) THEN <<nodes[Len(nodes)]>>
    ELSE LastDef(SubSeq(nodes, 1, Len(nodes) - 1), n)

BodyOf(def) == SelectSeq(def.kids, LAMBDA k : k.name # PARAMS)

DefA == Block(nTemplate, <<Arg(<<"t">>)>>, <<Leaf(nP, <<Arg(<<"a">>)>>)>>)
DefB == Block(nTemplate, <<Arg(<<"t">>)>>, <<Leaf(nP, <<Arg(<<"b">>)>>)>>)

\* C5: where the template plugin is the first plugin, a scope that has gone
\* past one or more `@template` nodes of a name holds, under that name, the
\* body of the last of them; a node `@name` that comes later in the scope
\* is given to that template; and `@template "t" { p "a" }`,
\* `@template "t" { p "b" }`, `@t` gives `<p>b</p>`.
C5_LatestRegistration ==
    (plugins # <<>> /\ plugins[1] = "template") =>
        /\ \A i \in 1..Len(stack) : \A n \in TemplateNames :
              LET last == LastDef(Visited(stack[i]), n)
              IN  last # <<>> =>
                    /\ n \in DOMAIN stack[i].templates
                    /\ stack[i].templates[n].node.kids = BodyOf(last[1])
        /\ \A n \in TemplateNames :
              (/\ ev.op \in DispatchOps /\ ev.node.name = <<"@">> \o n
               /\ LastDef(Visited(ev.em), n) # <<>>)
                  => ev.op = "emit_template"
        /\ (status = "ok" /\ plugins = <<"template">>
                /\ doc = <<DefA, DefB, Leaf(nT, <<>>)>>)
              => out = <<"<", "p", ">", "b", "<", "/", "p", ">">>

\* Two registrations of "t" and then a call have been emitted.
C5_Witness ==
    /\ status = "ok" /\ plugins = <<"template">>
    /\ doc = <<DefA, DefB, Leaf(nT, <<>>)>>
    /\ out = <<"<", "p", ">", "b", "<", "/", "p", ">">>

GreetDef ==
    Block(nTemplate, <<Arg(<<"t">>)>>,
          <<Leaf(PARAMS, <<Prop(kX, <<"d", "$", "x">>)>>),
            Leaf(nP, <<Arg(<<"$", "x", "$", "0">>)>>)>>)

GreetDoc(call) ==
    <<Leaf(nVarX, <<Arg(<<"a">>)>>), GreetDef, call,
      Leaf(nText, <<Arg(<<"$", "x", "$", "p", "r", "o", "p", "s">>)>>)>>

RECURSIVE Shape(_)
Shape(nodes) ==
    IF nodes = <<>> THEN <<>>
    ELSE <<Head(nodes).name, <<"{">>>> \o Shape(Head(nodes).kids) \o <<<<"}">>>>
             \o Shape(Tail(nodes))

\* The same, each `@children` node being replaced by the given nodes.
RECURSIVE SplicedShape(_, _)
SplicedShape(nodes, children) ==
    IF nodes = <<>> THEN <<>>
    ELSE (IF Head(nodes).name = nChildren THEN Shape(children)
          ELSE <<Head(nodes).name, <<"{">>>>
                   \o SplicedShape(Head(nodes).kids, children) \o <<<<"}">>>>)
             \o SplicedShape(Tail(nodes), children)

\* C7: the body a template instantiation emits is the template's body with
\* every `@children` node, at whatever depth, replaced in place by the
\* children of the call, in order (by nothing if the call has none); no
\* `@children` node is left in it.
C7_ChildrenSplice ==
    (ev.op = "emit_template" /\ ~ev.err) =>
        LET template == ev.em.templates[command_name(ev.node)]
        IN  /\ Shape(Top.document) = SplicedShape(template.node.kids, ev.node.kids)
            /\ \A j \in 1..Len(Top.document) : ~find_children_marker(Top.document[j])

\* A body with `@children` at its top and inside a div, called with a child.
C7_Witness ==
    /\ ev.op = "emit_template" /\ ~ev.err
    /\ ev.node.kids = <<Leaf(nP, <<Arg(<<"h">>)>>)>>
    /\ ev.em.templates[<<"t">>].node.kids =
          <<Leaf(nChildren, <<>>),
            Block(nDiv, <<>>, <<Leaf(nChildren, <<Prop(kK, <<"e">>)>>)>>)>>
    /\ Top.document =
          <<Leaf(nP, <<Arg(<<"h">>)>>),
            Block(nDiv, <<>>, <<Leaf(nP, <<Prop(kK, <<"e">>), Arg(<<"h">>)>>)>>)>>

\* C8: a call with a children block of a template whose body has no
\* `@children` is an error, and nothing of the template body is emitted.
C8_ChildrenUnsupported ==
    (/\ ev.op = "emit_template" /\ ev.node.block
     /\ ~find_children_marker(ev.em.templates[command_name(ev.node)].node))
        => /\ ev.err /\ status = "err" /\ stack = <<>>
           /\ ev.wrote = <<>>

\* Such a call, with a child and no `@children` of its own, has failed.
C8_Witness ==
    /\ ev.op = "emit_template" /\ ev.err /\ status = "err"
    /\ ev.node.kids = <<Leaf(nP, <<Arg(<<"h">>)>>)>>
    /\ ~find_children_marker(ev.em.templates[<<"t">>].node)
    /\ Len(ev.em.templates[<<"t">>].node.kids) > 0

\* C9: a call of a template that has a `@children` node in its own subtree
\* is an error, found before anything of the instantiation is emitted.
C9_MarkerInCall ==
    (ev.op = "emit_template" /\ find_children_marker(ev.node))
        => /\ ev.err /\ status = "err" /\ stack = <<>>
           /\ ev.wrote = <<>>

\* A template that takes children, called with `div { @children }`.
C9_Witness ==
    /\ ev.op = "emit_template" /\ ev.err
    /\ ev.em.templates[<<"t">>].uses_children
    /\ ev.node.kids = <<Block(nDiv, <<>>, <<Leaf(nChildren, <<>>)>>)>>
    /\ ev.msg = "Template call contain @children. Infinite recursion detected."

\* C10, as the specification has it: props is the text of the keyed entries
\* of the call that name no parameter, in the order of the call, each
\* expanded in the caller's environment, joined by single spaces.
C10_PropsExpanded ==
    (ev.op = "emit_template" /\ ~ev.err) =>
        LET template == ev.em.templates[command_name(ev.node)]
            kept == SelectSeq(ev.node.entries,
                              LAMBDA e : e.named /\ ~is_param(template, e.key))
        IN  /\ PROPS \in DOMAIN Top.start
            /\ Top.start[PROPS] =
                  Join([i \in 1..Len(kept) |->
                           expand_string(ev.em.vars, EntryToString(kept[i]))],
                       <<" ">>)

\* C11, as the specification has it: when the body of an instantiation,
\* after the splice, has one top-level child, that child is rendered with
\* its own attributes followed by props as one more attribute, its own
\* inline text (if any) staying its inline text; when the body has no or
\* several top-level children, the body is emitted as it is.
C11_PropsAmongAttributes ==
    /\ (ev.op = "emit_template" /\ ~ev.err) =>
          LET template == ev.em.templates[command_name(ev.node)]
              body == for_each_mut(template.node, ev.node.kids).kids
          IN  Len(body) # 1 => Top.document = body
    /\ (/\ ev.op = "emit_tag" /\ ~ev.err /\ ev.em.kind = "template"
        /\ Len(ev.em.document) = 1 /\ ev.em.nodes = ev.em.document) =>
          LET call == ev.em.via
              template == ev.em.templates[command_name(call)]
              own == for_each_mut(template.node, call.kids).kids[1]
              inline == HasContents(own, own.name)
              attrs == IF inline THEN SubSeq(own.entries, 1, Len(own.entries) - 1)
                       ELSE own.entries
              open == IndentOf(ev.em) \o <<"<">> \o own.name
                        \o Concat([i \in 1..Len(attrs) |-> AttrText(ev.em, attrs[i])])
                        \o AttrText(ev.em, Arg(VarsGet(ev.em.vars, PROPS)))
                        \o <<">">>
          IN  ev.wrote =
                IF own.block THEN open \o NL
                ELSE open
                       \o (IF inline
                           THEN expand_value(ev.em.vars, own.entries[Len(own.entries)])
                           ELSE <<>>)
                       \o <<"<", "/">> \o own.name \o <<">">> \o NL

\* C12: emit_tag on a node whose name is in the void set and which has a
\* children block, empty or not, whatever its entries, is an error, and
\* nothing is written for the node.
C12_VoidWithChildren ==
    (ev.op = "emit_tag" /\ ev.node.name \in VOID_TAGS /\ ev.node.block)
        => /\ ev.err /\ status = "err" /\ stack = <<>>
           /\ ev.msg = "Void tags can't have children"
           /\ ev.wrote = <<>>

\* `br` with entries and an empty children block has failed.
C12_Witness ==
    /\ ev.op = "emit_tag" /\ ev.err
    /\ ev.node.name = <<"b", "r">> /\ ev.node.block /\ ev.node.kids = <<>>
    /\ Len(ev.node.entries) = 2

\* C13, as the specification has it: emitting a non-void node that has a
\* trailing positional entry and a children block is an error.
C13_MixedTextIsError ==
    (/\ ev.op = "emit_tag" /\ ev.node.name \notin VOID_TAGS /\ ev.node.block
     /\ ev.node.entries # <<>>
     /\ ~ev.node.entries[Len(ev.node.entries)].named)
        => ev.err

\* C14, as the specification has it: a non-void node without children whose
\* only entry is an unnamed string is written as <name>TEXT</name>, TEXT
\* being the expanded value with the HTML special characters escaped.
C14_InlineTextEscaped ==
    (/\ ev.op = "emit_tag" /\ ev.node.name \notin VOID_TAGS /\ ~ev.node.block
     /\ Len(ev.node.entries) = 1
     /\ ~ev.node.entries[1].named /\ ev.node.entries[1].str)
        => ev.wrote = IndentOf(ev.em) \o <<"<">> \o ev.node.name \o <<">">>
                        \o encode_text(expand_string(ev.em.vars, ev.node.entries[1].val))
                        \o <<"<", "/">> \o ev.node.name \o <<">">> \o NL

\* The text of one attribute, as C15 has it.
AttrRender(vs, e) ==
    LET value == IF e.str THEN expand_string(vs, e.val) ELSE e.val
    IN  IF value = <<>> THEN <<>>
        ELSE IF e.named
             THEN <<" ">> \o expand_string(vs, e.key) \o <<"=", "\"">> \o value \o <<"\"">>
        ELSE <<" ">> \o value

\* C15: the opening tag emit_tag writes has the attributes of the node in
\* the order of its entries, and an entry whose expanded value is empty
\* gives no text at all.
C15_AttributeOrder ==
    (ev.op = "emit_tag" /\ ~ev.err) =>
        LET es == ev.node.entries
            inline == ev.node.name \notin VOID_TAGS /\ ~ev.node.block
                        /\ es # <<>> /\ ~es[Len(es)].named
            attrs == IF inline THEN SubSeq(es, 1, Len(es) - 1) ELSE es
            open == IndentOf(ev.em) \o <<"<">> \o ev.node.name
                      \o Concat([i \in 1..Len(attrs) |-> AttrRender(ev.em.vars, attrs[i])])
                      \o <<">">>
        IN  /\ Len(ev.wrote) >= Len(open)
            /\ SubSeq(ev.wrote, 1, Len(open)) = open

\* p j="$x" k="$e" k="v", where e is empty, has been written as
\* <p j="a<" k="v"></p>.
C15_Witness ==
    /\ ev.op = "emit_tag" /\ ~ev.err /\ indent = 0
    /\ ev.node = Leaf(nP, <<Prop(kJ, <<"$", "x">>), Prop(kK, <<"$", "e">>),
                            Prop(kK, <<"v">>)>>)
    /\ ev.wrote = <<"<", "p", " ", "j", "=", "\"", "a", "<", "\"", " ",
                    "k", "=", "\"", "v", "\"", ">", "<", "/", "p", ">">>

\* C16: when a handler returns an error, at whatever depth, the build ends
\* with that error at once: no emit() call stays active, so no later node of
\* any enclosing level is processed, and nothing is written after the
\* failure.
C16_ErrorAborts ==
    /\ ev.err => status = "err"
    /\ status = "err" =>
          /\ ev.err /\ ev.wrote = <<>>
          /\ stack = <<>>
          /\ ~ENABLED Next

\* A node inside a loop inside an element has failed, with output written
\* before it and nodes left after it.
C16_Witness ==
    /\ status = "err" /\ ev.err
    /\ ev.em.kind = "for" /\ ev.em.level = 1
    /\ Len(ev.em.nodes) = 2
    /\ out # <<>>

\* ---- C17

\* The arguments after `in` call for a range that parse_range cannot make:
\* a bound that is no integer, no bound or more than three, or a step of 0.
MalformedRange(a) ==
    /\ a # <<>> /\ a[1].str /\ a[1].val = RANGE
    /\ parse_range(a).kind # "Some"

\* The misuses: `template` without a name or without a children block,
\* `import` or `include` of a path that does not exist, `for` without a
\* binding name, without `in`, without a body or with a malformed range.
Misuse(em, node) ==
    /\ IsCommandNode(node)
    /\ \/ /\ command_name(node) = TEMPLATE
          /\ \/ ~node.block
             \/ ~HasArg0(node) /\ keyed_entries(node) = <<>>
       \/ /\ command_name(node) \in {IMPORT, INCLUDE}
          /\ HasArg0(node) /\ Arg0(node).str
          /\ ~exists(join(parent(em.source),
                          expand_string(em.vars, Arg0(node).val)))
          /\ ~exists(join(parent(em.filename),
                          expand_string(em.vars, Arg0(node).val)))
       \/ /\ command_name(node) = FOR
          /\ \/ ~HasArg0(node)
             \/ Len(args(node)) < 2
             \/ ~(args(node)[2].str /\ args(node)[2].val = <<"i", "n">>)
             \/ ~node.block
             \/ MalformedRange(SubSeq(args(node), 3, Len(args(node))))

\* C17: every misuse of `template`, `import`, `include` and `for` that the
\* template plugin comes to handle is reported as an error that ends the
\* build: the step that handles the node fails, without a panic, and the
\* build is over with an error.
C17_MisuseIsError ==
    (ev.op # "init" /\ Misuse(ev.em, ev.node))
        => (ev.err /\ ~ev.panic /\ status = "err")

\* ---- C18

\* An `import` node is being processed: the loop over the nodes of its file
\* is somewhere on the stack.
InImport == \E i \in 1..Len(stack) : stack[i].kind = "import"

\* C18: processing an `import` node writes nothing, whatever the imported
\* file contains: no step taken while an import is being processed, at any
\* depth below it, writes to the output of the build.
C18_ImportWritesNothing == InImport => ev.wrote = <<>>

\* ---- C19

\* $x "a"; @include "i"; @t; - "$x$y", where the file i is
\* - "$x"; $x "i"; _ "<$x"
IncludeDoc ==
    <<Leaf(nVarX, <<Arg(<<"a">>)>>), include(<<"i">>), Leaf(nT, <<>>),
      Leaf(nText, <<Arg(<<"$", "x", "$", "y">>)>>)>>

\* What the document with the nodes of i in the place of the include node
\* writes: a, <i, <@t></@t>, i, a line each.
PastedOut ==
    <<"a", "\n", "<", "i", "\n", "<", "@", "t", ">", "<", "/", "@", "t", ">", "\n",
      "i", "\n">>

\* C19: an `include` works as if the top-level nodes of the file stood in
\* the place of the include node. The file's nodes are emitted from the
\* state the caller is in at the include node (same variables, same depth
\* of indentation, same templates, nothing written around them), to the
\* output of the build; when they are done the caller goes on with the
\* variables as the file's nodes left them. On the example document the
\* output is that of the document with the nodes pasted.
C19_IncludeAsPasted ==
    /\ \A i \in 2..Len(stack) :
          stack[i].kind = "include" =>
              /\ stack[i].document = Files[stack[i].source]
              /\ stack[i].start = stack[i - 1].vars
              /\ stack[i].level = stack[i - 1].level
              /\ stack[i].closing = <<>>
    /\ (ev.op = "include" /\ ~ev.err) =>
              /\ Top.kind = "include" /\ Top.nodes = Top.document
              /\ Top.vars = ev.em.vars
              /\ Top.templates = ev.em.templates
              /\ ev.wrote = <<>>
    /\ (ev.op = "return" /\ ev.em.kind = "include") =>
              /\ Top.vars = ev.em.vars
              /\ Top.level = ev.em.level
              /\ ev.wrote = <<>>
    /\ (status = "ok" /\ doc = IncludeDoc /\ plugins = <<"template">>) =>
              out = PastedOut

\* The included file has bound $x, and the caller's later sibling has
\* written the new value.
C19_Witness ==
    /\ status = "ok" /\ doc = IncludeDoc /\ plugins = <<"template">>
    /\ out = PastedOut
    /\ Top.vars # build(<<>>).vars

\* ---- C20

\* The path an `import` or `include` node names, taken relative to the
\* directory of the file the node stands in.
RelativeToContainingFile(em, node) ==
    join(parent(em.source), expand_string(em.vars, Arg0(node).val))

\* C20: the path of an `import` or `include` node is resolved relative to
\* the directory of the file that contains the node, at every depth: the
\* file that is read is the one at that path, and the node fails for a
\* missing file only if there is no file at that path.
C20_RelativeToContainingFile ==
    (ev.op \in {"import", "include"} /\ HasArg0(ev.node) /\ Arg0(ev.node).str) =>
        IF ev.err
        THEN ~exists(RelativeToContainingFile(ev.em, ev.node))
        ELSE /\ Top.kind = ev.op
             /\ Top.source = RelativeToContainingFile(ev.em, ev.node)
             /\ Top.document = Files[RelativeToContainingFile(ev.em, ev.node)]

\* ---- C21

\* compile: the files the template plugin of the emitter of the build has
\* recorded when emit has returned Ok.
UsedFiles == used_files(stack[1].file_dep_graph)

\* C21: after a successful build the recorded set of used files contains
\* every file that was read through `import` or `include`, at whatever
\* depth the node that read it was.
C21_UsedFilesComplete == status = "ok" => ev.read \subseteq UsedFiles

\* ---- C22

\* The values of a `for` node: its arguments after the name and `in`.
ValuesOf(node) == SubSeq(args(node), 3, Len(args(node)))

\* The values are a list of literal values, not a range.
LiteralValues(node) ==
    ValuesOf(node) = <<>>
        \/ ~(ValuesOf(node)[1].str /\ ValuesOf(node)[1].val = RANGE)

\* $x "b$x"; @for "i" "in" "a" "$x" { $x "$x$i"; - "$x" }
ForDoc ==
    <<Leaf(nVarX, <<Arg(<<"b", "$", "x">>)>>),
      Block(nFor, <<Arg(<<"i">>), Arg(<<"i", "n">>), Arg(<<"a">>), Arg(<<"$", "x">>)>>,
            <<Leaf(nVarX, <<Arg(<<"$", "x", "$", "i">>)>>),
              Leaf(nText, <<Arg(<<"$", "x">>)>>)>>)>>

\* C22: `for name in v1 ... vn { body }` emits the body n times, in the
\* order of the values: the emission under way is that of the k-th value
\* with the values after it still to come, it emits the body from the
\* environment of the `for` node with name bound to the expanded k-th value,
\* the loop ends only after the n-th, and with no value nothing is emitted.
C22_ForEachValue ==
    /\ \A i \in 2..Len(stack) :
          (stack[i].kind = "for" /\ LiteralValues(stack[i].via)) =>
              LET f == stack[i]
                  values == ValuesOf(f.via)
                  k == Len(values) - Len(f.loop.rest)
              IN  /\ k \in 1..Len(values)
                  /\ f.loop.rest = SubSeq(values, k + 1, Len(values))
                  /\ f.document = f.via.kids
                  /\ f.outer = stack[i - 1].vars
                  /\ f.start = VarsInsert(f.outer, Arg0(f.via).val,
                                          expand_value(f.outer, values[k]))
    /\ (ev.op = "for" /\ ~ev.err /\ LiteralValues(ev.node)) =>
          IF ValuesOf(ev.node) = <<>>
          THEN ev.wrote = <<>> /\ (stack # <<>> => Top.kind = ev.em.kind)
          ELSE /\ Top.kind = "for" /\ Top.via = ev.node
               /\ Top.nodes = Top.document
               /\ Top.loop.rest = Tail(ValuesOf(ev.node))
    /\ ev.op = "iterate" =>
          /\ Top.kind = "for" /\ Top.via = ev.node
          /\ Top.nodes = Top.document
          /\ Top.loop.rest = Tail(ev.em.loop.rest)
    /\ (ev.op = "return" /\ ev.em.kind = "for") => ev.em.loop.rest = <<>>
    /\ (status = "ok" /\ doc = ForDoc /\ plugins = <<"template">> /\ indent = 4) =>
          out = <<"b", "a", "\n", "b", "b", "\n">>

\* The loop over "a" and "$x" has emitted its body twice, with ba and then
\* bb, and a loop without values has emitted nothing.
C22_Witness ==
    /\ status = "ok" /\ doc = ForDoc /\ plugins = <<"template">> /\ indent = 4
    /\ out = <<"b", "a", "\n", "b", "b", "\n">>
    /\ ev.op = "return"

\* ---- C23

\* The values are a range with one, two or three integers.
IntegerRange(a) ==
    /\ Len(a) \in 2..4 /\ a[1].str /\ a[1].val = RANGE
    /\ \A i \in 2..Len(a) : ~a[i].str

RangeStart(a) == IF Len(a) = 2 THEN 1 ELSE ToNat(a[2].val)
RangeStep(a) == IF Len(a) = 4 THEN ToNat(a[3].val) ELSE 1
RangeEnd(a) == ToNat(a[Len(a)].val)

\* start, start + step, start + 2 step, ... as far as end, for a step that
\* is not 0; nothing when end is below start.
RangeValues(a) ==
    IF RangeEnd(a) < RangeStart(a) THEN <<>>
    ELSE [i \in 1..((RangeEnd(a) - RangeStart(a)) \div RangeStep(a) + 1) |->
             IntArg(ToDec(RangeStart(a) + (i - 1) * RangeStep(a)))]

C24_FreshEnvironment == ev.op = "emit" => Top.vars = EmptyVars

\* ---- C28

NamedEntries(node) == SelectSeq(node.entries, LAMBDA e : e.named)
PositionalEntries(node) == SelectSeq(node.entries, LAMBDA e : ~e.named)
Names(entries) == {entries[i].key : i \in 1..Len(entries)}

\* The value of a node's first entry of a name.
FirstValue(entries, key) ==
    entries[CHOOSE i \in 1..Len(entries) :
               /\ entries[i].key = key
               /\ \A j \in 1..(i - 1) : entries[j].key # key].val

\* C28: the named entries of a `@children` node are defaults for each
\* spliced child: the child as emitted has its own named entries, unchanged,
\* and one entry for each name of the `@children` node that it did not have,
\* with the value given there; its positional entries are its own, so the
\* positional entries of the `@children` node go nowhere.
C28_SpliceDefaults ==
    (/\ ev.op = "emit_template" /\ ~ev.err
     /\ Len(ev.em.templates[command_name(ev.node)].node.kids) = 2
     /\ ev.em.templates[command_name(ev.node)].node.kids[1].name = nQ
     /\ ev.em.templates[command_name(ev.node)].node.kids[2].name = nChildren) =>
        LET splice == ev.em.templates[command_name(ev.node)].node.kids[2]
            defaults == NamedEntries(splice)
        IN  /\ Len(Top.document) = 1 + Len(ev.node.kids)
            /\ \A j \in 1..Len(ev.node.kids) :
                  LET child == ev.node.kids[j]
                      spliced == Top.document[1 + j]
                      own == NamedEntries(child)
                  IN  /\ spliced.name = child.name /\ spliced.kids = child.kids
                      /\ PositionalEntries(spliced) = PositionalEntries(child)
                      /\ Names(NamedEntries(spliced)) = Names(own) \cup Names(defaults)
                      /\ Len(NamedEntries(spliced))
                            = Len(own) + Cardinality(Names(defaults) \ Names(own))
                      /\ \A key \in Names(own) :
                            FirstValue(NamedEntries(spliced), key) = FirstValue(own, key)
                      /\ \A key \in Names(defaults) \ Names(own) :
                            FirstValue(NamedEntries(spliced), key)
                                = FirstValue(defaults, key)

\* A `@children` node with k="e" and a positional entry, and a child that
\* has j and k of its own: the child is emitted as it was written.
C28_Witness ==
    /\ ev.op = "emit_template" /\ ~ev.err
    /\ ev.em.templates[<<"t">>].node.kids[2]
          = Leaf(nChildren, <<Prop(kK, <<"e">>), Arg(<<"z">>)>>)
    /\ ev.node.kids = <<Leaf(nP, <<Prop(kJ, <<"o">>)>>),
                        Block(nDiv, <<>>, <<Leaf(nP, <<>>)>>)>>
    /\ Top.document[2] = Leaf(nP, <<Prop(kK, <<"e">>), Prop(kJ, <<"o">>)>>)
    /\ Top.document[3] = Block(nDiv, <<Prop(kK, <<"e">>)>>, <<Leaf(nP, <<>>)>>)

\* ---- C27

\* The body registered under n that emitter i of the stack is to know: that
\* of the last registration among the nodes it has gone past itself, or else
\* what the emitter it was cloned from knew when it cloned it; <<>> if none.
RECURSIVE KnownBody(_, _)
KnownBody(i, n) ==
    IF LastDef(Visited(stack[i]), n) # <<>>
    THEN <<BodyOf(LastDef(Visited(stack[i]), n)[1])>>
    ELSE IF i = 1 THEN <<>>
    ELSE KnownBody(i - 1, n)

\* div { @template "t" { p "c" }; @t }; @t
RegisteredInside ==
    <<Block(nDiv, <<>>,
            <<Block(nTemplate, <<Arg(<<"t">>)>>, <<Leaf(nP, <<Arg(<<"c">>)>>)>>),
              Leaf(nT, <<>>)>>),
      Leaf(nT, <<>>)>>

\* C27: what a plugin registers through one emitter is seen through that
\* emitter and those cloned from it afterwards only. Where the template
\* plugin is the first plugin, every emitter knows under a name exactly the
\* last registration it made itself or, if it made none, what the emitter
\* it was cloned from knew at that time: never what an emitter cloned from
\* it registered. A template registered in the children block of an element
\* is known inside the block and unknown to the later siblings of the
\* element.
C27_RegistrationIsPrivate ==
    (plugins # <<>> /\ plugins[1] = "template") =>
        /\ \A i \in 1..Len(stack) : \A n \in TemplateNames :
              IF KnownBody(i, n) = <<>>
              THEN n \notin DOMAIN stack[i].templates
              ELSE /\ n \in DOMAIN stack[i].templates
                   /\ stack[i].templates[n].node.kids = KnownBody(i, n)[1]
        /\ (status = "ok" /\ plugins = <<"template">> /\ doc = RegisteredInside
                /\ indent = 0)
              => out = <<"<", "d", "i", "v", ">", "<", "p", ">", "c", "<", "/", "p", ">",
                         "<", "/", "d", "i", "v", ">",
                         "<", "@", "t", ">", "<", "/", "@", "t", ">">>

\* The template registered inside the div has been called there, and the
\* `@t` after the div has been written as a plain element.
C27_Witness ==
    /\ status = "ok" /\ plugins = <<"template">> /\ doc = RegisteredInside
    /\ indent = 0
    /\ <<"t">> \notin DOMAIN Top.templates
    /\ out = <<"<", "d", "i", "v", ">", "<", "p", ">", "c", "<", "/", "p", ">",
               "<", "/", "d", "i", "v", ">",
               "<", "@", "t", ">", "<", "/", "@", "t", ">">>

\* ---- C30

\* C30: every build comes to an end, with its output written or with an
\* error, also when files import or include each other in a cycle and when
\* the body of a template calls the template.
C30_Terminates == <>(status \in {"ok", "err"})

\* ---- C25: the watch set after a build that passed
\*
\* C25: in watch mode, when a build has passed and the program waits for a
\* change, the paths whose change starts a rebuild are the files that build
\* used and the entry file, no other: a path that only an earlier build used
\* starts no rebuild any more.
C25_WatchSetReplaced ==
    (pc = "wait" /\ compiled.ok) =>
        Triggers(watcher) = compiled.paths \cup {EntryFile}

\* ---- C29: the entry file after a build that failed
\*
\* C29: in watch mode, whenever the program waits for a change, after a build
\* that passed or one that failed, the first build included, a change of the
\* entry file is one that starts a rebuild.
C29_EntryWatched == pc = "wait" => EntryFile \in Triggers(watcher)

\* ---- C26: no change without a rebuild
\*
\* C26: in watch mode, a change (not an access) of a path that starts rebuilds
\* is followed by the beginning of a build: whenever such changes are waiting
\* for their rebuild, a build begins later.
C26_ChangeRebuilt == (pending # {}) ~> (pending = {})

====
